---- MODULE Spec2Model ----
(***************************************************************************)
(* A model of the ai-code-reviewer pipeline: the risk scorer, the webhook  *)
(* ingress, the in-memory job queue, the review orchestrator (runReview)   *)
(* and the worker's job handler.                                           *)
(*                                                                         *)
(* Numbers: a confidence is kept in hundredths (0.95 is 95), a category    *)
(* weight in tenths (4.0 is 40), so an issue's contribution                *)
(* severity x confidence x category is kept in thousandths.                *)
(***************************************************************************)
EXTENDS Integers, Sequences, FiniteSets, TLC

VARIABLES
    \* ---- risk scorer (packages/core risk-scorer) ----
    issues,         \* the Issue[] handed to calculateRiskScore
    riskResult,     \* the RiskScoreResult of the last call
    \* ---- MemoryQueue (webhook-server queue/job-queue) ----
    jobs,           \* MemoryQueue.jobs: the ids of the queued ReviewJobs, oldest first
    processing,     \* MemoryQueue.processing
    processor,      \* MemoryQueue.processor is set
    inFlight,       \* the jobs whose processor promise a processJobs loop awaits
    handed,         \* the jobs handed to the processor so far, in hand-over order
    completedJobs,  \* jobs logged 'Job completed'
    failedJobs,     \* jobs logged 'Job failed' (their processing threw)
    nextJobId,      \* the number of ReviewJobs created so far, plus one
    \* ---- webhook ingress (POST /webhook) ----
    req,            \* the last request received
    resp,           \* the response it got
    reqEnqueued,    \* the ids of the jobs that request's handler passed to queue.enqueue
    \* ---- reviewer worker: the broker's job, processJob and runReview ----
    brokerState,    \* the job in the broker: waiting, active, completed or failed
    attemptsMade,   \* the attempts of the job that ended with the handler throwing
    config,         \* the WorkerConfig
    pc,             \* where runReview is: the call it awaits, idle or returned
    checkRunId,     \* runReview's checkRunId; 0 is undefined
    checkRunStatus, \* the check run on the forge: none, in_progress or completed
    checkConclusion,\* the conclusion written to the check run
    parsedFiles,    \* parsedDiff.files
    categorized,    \* the CategorizedFiles
    pendingTools,   \* the static tools whose run is awaited
    toolResults,    \* runStaticTools' issues, then with the CVE issues pushed
    toolsRun,       \* runReview's toolsRun
    llmIssues,      \* the issues of the chunks analysed so far
    chunksLeft,     \* the chunks not yet analysed; the first is the one awaited
    output,         \* the ReviewOutput built, in a sequence of at most one
    postedReviews,  \* the reviews this run created on the pull request
    reviewResult,   \* the ReviewResult runReview returned
    failedSteps,    \* the steps of this run that failed (threw, or a tool's success=false)
    osvAdvisories,  \* the advisories the vulnerability database holds during this run
    analysesOk,     \* the chunks of this run whose llmProvider.analyze resolved
    \* ---- calls of the core library's functions ----
    aggInput,       \* the Issue[] handed to aggregateIssues
    aggConfig,      \* the config handed to it
    dedupResult,    \* deduplicateIssues of that list
    aggResult,      \* the AggregationResult
    chunkFiles,     \* the files of the ParsedDiff handed to chunkDiff
    chunkConfig,    \* the ChunkConfig handed to it
    chunkResult,    \* the DiffChunk[] it returned
    diffLines,      \* the lines of the diffContent handed to parseDiff
    diffGen,        \* where in git's diff format that text ends
    parsedDiff,     \* the ParsedDiff it returned
    \* ---- installation tokens (webhook-server auth/github-app) ----
    clock,          \* Date.now(), in steps of 30 seconds
    tokenCache,     \* tokenCache: installation id -> InstallationToken
    fetching,       \* per installation id, the calls awaiting their fetch
    tokensIssued,   \* the tokens the forge has issued
    tokenCall,      \* the last call of getInstallationToken that moved
    \* ---- static-tool runners ----
    toolRun,        \* the last run of a runner: its machine and its ToolResult
    \* ---- LLM providers ----
    llmCall         \* the last analyze call: provider, chunk.filePaths, answer, issues

riskVars == <<issues, riskResult>>
queueVars == <<jobs, processing, processor, inFlight, handed, completedJobs, failedJobs, nextJobId>>
webVars == <<req, resp, reqEnqueued>>
reviewVars == <<brokerState, attemptsMade, config, pc, checkRunId, checkRunStatus,
                checkConclusion, parsedFiles, categorized, pendingTools, toolResults,
                toolsRun, llmIssues, chunksLeft, output, postedReviews, reviewResult, failedSteps,
                osvAdvisories, analysesOk>>
aggVars == <<aggInput, aggConfig, dedupResult, aggResult>>
chunkVars == <<chunkFiles, chunkConfig, chunkResult>>
parseVars == <<diffLines, diffGen, parsedDiff>>
tokenVars == <<clock, tokenCache, fetching, tokensIssued, tokenCall>>
toolVars == <<toolRun>>
llmVars == <<llmCall>>
coreVars == <<aggVars, chunkVars, parseVars, tokenVars, toolVars, llmVars>>

vars == <<issues, riskResult,
          jobs, processing, processor, inFlight, handed, completedJobs, failedJobs, nextJobId,
          req, resp, reqEnqueued,
          brokerState, attemptsMade, config, pc, checkRunId, checkRunStatus,
          checkConclusion, parsedFiles, categorized, pendingTools, toolResults,
          toolsRun, llmIssues, chunksLeft, output, postedReviews, reviewResult, failedSteps,
          osvAdvisories, analysesOk, aggInput, aggConfig, dedupResult, aggResult,
          chunkFiles, chunkConfig, chunkResult, diffLines, diffGen, parsedDiff,
          clock, tokenCache, fetching, tokensIssued, tokenCall, toolRun, llmCall>>

(***************************************************************************)
(* Bounds of the model                                                     *)
(***************************************************************************)
MaxIssues == 10
MaxJobs == 4
MaxAccepted == 2
MaxMixed == 2
MaxRepeated == 50
MaxAggIssues == 4
MaxInlineCap == 2
MaxChunkFiles == 4

(***************************************************************************)
(* Helpers                                                                 *)
(***************************************************************************)
Min(a, b) == IF a <= b THEN a ELSE b

\* Math.round of the non-negative rational n/d: round half up.
MathRound(n, d) == (2 * n + d) \div (2 * d)

Range(s) == {s[k] : k \in 1..Len(s)}

RECURSIVE findCategory(_, _)
\* Array.prototype.find by category: the first index of bs with that category, 0 when none
findCategory(bs, category) ==
    IF bs = <<>> THEN 0
    ELSE IF Head(bs).category = category THEN 1
    ELSE LET r == findCategory(Tail(bs), category) IN IF r = 0 THEN 0 ELSE r + 1

(***************************************************************************)
(* Risk scorer                                                             *)
(***************************************************************************)
Categories == {"security", "correctness", "dependency", "performance",
               "maintainability", "style"}
Severities == {"low", "medium", "high", "critical"}

SEVERITY_WEIGHTS == [low |-> 1, medium |-> 3, high |-> 7, critical |-> 15]

\* in tenths
CATEGORY_WEIGHTS == [security |-> 40, correctness |-> 30, dependency |-> 25,
                     performance |-> 20, maintainability |-> 15, style |-> 10]

RISK_THRESHOLDS == [critical |-> 85, high |-> 60, medium |-> 30, low |-> 0]

maxExpectedIssues == 20

\* a scorer counting a confidence below one half against the score
getIssueScoreSigned(issue) ==
    SEVERITY_WEIGHTS[issue.severity] * (issue.confidence - 50) * CATEGORY_WEIGHTS[issue.category]

\* severity x confidence x category, in thousandths
getIssueScore(issue) ==
    SEVERITY_WEIGHTS[issue.severity] * issue.confidence * CATEGORY_WEIGHTS[issue.category]

\* the categories of xs in the order a Map first sees them
RECURSIVE categoryOrder(_, _)
categoryOrder(xs, seen) ==
    IF xs = <<>> THEN <<>>
    ELSE IF Head(xs).category \in seen THEN categoryOrder(Tail(xs), seen)
    ELSE <<Head(xs).category>> \o categoryOrder(Tail(xs), seen \cup {Head(xs).category})

RECURSIVE maxSeverityOf(_, _)
maxSeverityOf(xs, acc) ==
    IF xs = <<>> THEN acc
    ELSE maxSeverityOf(Tail(xs),
            IF SEVERITY_WEIGHTS[Head(xs).severity] > SEVERITY_WEIGHTS[acc]
            THEN Head(xs).severity ELSE acc)

RECURSIVE scoreSum(_)
scoreSum(xs) == IF xs = <<>> THEN 0 ELSE getIssueScore(Head(xs)) + scoreSum(Tail(xs))

\* one CategoryBreakdown; score_contribution is Math.round(score * 10) / 10, kept in tenths
categoryBreakdown(xs, category) ==
    LET mine == SelectSeq(xs, LAMBDA i : i.category = category)
    IN  [category |-> category,
         count |-> Len(mine),
         max_severity |-> maxSeverityOf(mine, "low"),
         score_contribution |-> MathRound(scoreSum(mine), 100)]

\* Array.prototype.sort with (a, b) => b.score_contribution - a.score_contribution:
\* a stable sort, highest contribution first
RECURSIVE insertBreakdown(_, _)
insertBreakdown(sorted, b) ==
    IF sorted = <<>> THEN <<b>>
    ELSE IF Head(sorted).score_contribution >= b.score_contribution
         THEN <<Head(sorted)>> \o insertBreakdown(Tail(sorted), b)
         ELSE <<b>> \o sorted

RECURSIVE sortBreakdown(_, _)
sortBreakdown(bs, acc) ==
    IF bs = <<>> THEN acc ELSE sortBreakdown(Tail(bs), insertBreakdown(acc, Head(bs)))

riskLevel(finalScore) ==
    IF finalScore >= RISK_THRESHOLDS.critical THEN "critical"
    ELSE IF finalScore >= RISK_THRESHOLDS.high THEN "high"
    ELSE IF finalScore >= RISK_THRESHOLDS.medium THEN "medium"
    ELSE "low"

calculateRiskScore(xs) ==
    LET order == categoryOrder(xs, {})
        breakdown == sortBreakdown([k \in 1..Len(order) |-> categoryBreakdown(xs, order[k])], <<>>)
        totalRawScore == scoreSum(xs)                         \* thousandths
        \* maxExpectedIssues x critical x security, in tenths
        maxPossibleScore == maxExpectedIssues * SEVERITY_WEIGHTS.critical * CATEGORY_WEIGHTS.security
        \* normalizedScore = min(100, raw / max * 100) = min(100, n / d) with
        n == totalRawScore
        d == maxPossibleScore
        capped == n >= 100 * d
        \* finalScore = Math.round(Math.min(100, normalizedScore * 1.1))
        finalScore == IF capped \/ 11 * n >= 100 * 10 * d
                      THEN 100
                      ELSE MathRound(11 * n, 10 * d)
    IN  [score |-> Min(100, finalScore),
         level |-> riskLevel(finalScore),
         breakdown |-> breakdown,
         rawScore |-> totalRawScore,
         maxPossibleScore |-> maxPossibleScore]

shouldFailCheck(result, threshold, failOnCriticalSecurity) ==
    IF result.score >= threshold THEN TRUE
    ELSE IF failOnCriticalSecurity
         THEN LET k == findCategory(result.breakdown, "security")
              IN  k # 0 /\ result.breakdown[k].max_severity = "critical"
         ELSE FALSE

\* createTestIssue(category, severity, confidence) of the scorer's tests
createTestIssue(category, severity, confidence) ==
    [category |-> category, severity |-> severity, confidence |-> confidence]

\* the issues the scorer is driven with
RiskInputs == {createTestIssue("security", "critical", 100),
               createTestIssue("style", "low", 50),
               createTestIssue("style", "low", 80)}

InitRisk ==
    /\ issues = <<>>
    /\ riskResult = calculateRiskScore(<<>>)

\* every valid combination of the scored fields, at three confidences
ValidIssues == {createTestIssue(c, sv, cf) : c \in Categories, sv \in Severities, cf \in {0, 35, 100}}

\* a caller scores a short list grown by any valid issue
ScoreValidIssue ==
    /\ Len(issues) < MaxMixed
    /\ \E i \in ValidIssues :
          /\ issues' = Append(issues, i)
          /\ riskResult' = calculateRiskScore(Append(issues, i))
    /\ UNCHANGED <<queueVars, webVars, reviewVars, coreVars>>

\* a caller scores a list of one more critical security issue of confidence 1.0, as the
\* test of the cap does with 50 of them
ScoreRepeatedIssue ==
    /\ Len(issues) >= MaxIssues
    /\ Len(issues) < MaxRepeated
    /\ \A k \in 1..Len(issues) : issues[k] = createTestIssue("security", "critical", 100)
    /\ issues' = Append(issues, createTestIssue("security", "critical", 100))
    /\ riskResult' = calculateRiskScore(issues')
    /\ UNCHANGED <<queueVars, webVars, reviewVars, coreVars>>

\* a caller scores the list of test issues grown by one
ScoreIssues ==
    /\ Len(issues) < MaxIssues
    /\ Range(issues) \subseteq RiskInputs
    /\ \E i \in RiskInputs :
          /\ issues' = Append(issues, i)
          /\ riskResult' = calculateRiskScore(Append(issues, i))
    /\ UNCHANGED <<queueVars, webVars, reviewVars, coreVars>>

(***************************************************************************)
(* MemoryQueue                                                             *)
(***************************************************************************)
\* the queue initQueue builds: a new MemoryQueue with its inline processor registered
InitQueue ==
    /\ jobs = <<>>
    /\ processing = FALSE
    /\ processor = TRUE
    /\ inFlight = {}
    /\ handed = <<>>
    /\ completedJobs = {}
    /\ failedJobs = {}
    /\ nextJobId = 1

\* processJobs, from its while test to its next await: with a job queued it shifts the
\* oldest one and calls the processor on it; with none it clears the flag and ends.
\* q is [jobs, processing, inFlight, handed].
processJobsStep(q) ==
    IF Len(q.jobs) > 0
    THEN [q EXCEPT !.jobs = Tail(q.jobs),
                   !.inFlight = q.inFlight \cup {Head(q.jobs)},
                   !.handed = Append(q.handed, Head(q.jobs))]
    ELSE [q EXCEPT !.processing = FALSE]

\* processJobs up to its first await
processJobs(q) ==
    IF ~processor \/ q.processing THEN q
    ELSE processJobsStep([q EXCEPT !.processing = TRUE])

\* MemoryQueue.enqueue(job)
enqueue(q, job) ==
    LET pushed == [q EXCEPT !.jobs = Append(q.jobs, job)]
    IN  IF processor /\ ~pushed.processing THEN processJobs(pushed) ELSE pushed

queueNow == [jobs |-> jobs, processing |-> processing, inFlight |-> inFlight, handed |-> handed]

SetQueue(q) ==
    /\ jobs' = q.jobs
    /\ processing' = q.processing
    /\ inFlight' = q.inFlight
    /\ handed' = q.handed

\* a caller enqueues a new ReviewJob
Enqueue ==
    /\ nextJobId <= MaxJobs
    /\ SetQueue(enqueue(queueNow, nextJobId))
    /\ nextJobId' = nextJobId + 1
    /\ UNCHANGED <<processor, completedJobs, failedJobs, riskVars, webVars, reviewVars, coreVars>>

\* a loop whose catch puts the failed job back at the end of the queue
JobSettlesRetry ==
    \E j \in inFlight, threw \in BOOLEAN :
        /\ completedJobs' = IF threw THEN completedJobs ELSE completedJobs \cup {j}
        /\ failedJobs' = IF threw THEN failedJobs \cup {j} ELSE failedJobs
        /\ SetQueue(processJobsStep([queueNow EXCEPT
                        !.inFlight = inFlight \ {j},
                        !.jobs = IF threw /\ j \notin failedJobs THEN Append(jobs, j) ELSE jobs]))
        /\ UNCHANGED <<processor, nextJobId, riskVars, webVars, reviewVars, coreVars>>

\* the processor's promise for job j settles (resolved, or rejected and caught), and the
\* loop that awaited it goes on
JobSettles ==
    \E j \in inFlight, threw \in BOOLEAN :
        /\ completedJobs' = IF threw THEN completedJobs ELSE completedJobs \cup {j}
        /\ failedJobs' = IF threw THEN failedJobs \cup {j} ELSE failedJobs
        /\ SetQueue(processJobsStep([queueNow EXCEPT !.inFlight = inFlight \ {j}]))
        /\ UNCHANGED <<processor, nextJobId, riskVars, webVars, reviewVars, coreVars>>

\* MemoryQueue.close()
Close ==
    /\ jobs' = <<>>
    /\ processing' = FALSE
    /\ UNCHANGED <<processor, inFlight, handed, completedJobs, failedJobs, nextJobId,
                   riskVars, webVars, reviewVars, coreVars>>

(***************************************************************************)
(* Webhook ingress                                                         *)
(***************************************************************************)
SUPPORTED_ACTIONS == {"opened", "synchronize", "reopened", "ready_for_review"}

\* config.githubWebhookSecret
WebhookSecret == "secret"

\* the length of 'sha256=' followed by the 64 hex digits of a SHA-256 digest
SignatureLength == 71

\* A raw request body, described by what JSON.parse makes of it: parses says whether it
\* is JSON at all; the other fields say which members the parsed object has.
\* action "absent" stands for a missing or non-string action.
PayloadActions == SUPPORTED_ACTIONS \cup {"closed", "absent"}

NotJson == [parses |-> FALSE, action |-> "absent", hasNumber |-> FALSE,
            hasPullRequest |-> FALSE, draft |-> FALSE, hasHead |-> FALSE,
            hasRepository |-> FALSE, hasOwner |-> FALSE,
            hasInstallation |-> FALSE, hasInstallationId |-> FALSE]

RawBodies ==
    {NotJson} \cup
    {b \in [parses : {TRUE}, action : PayloadActions, hasNumber : BOOLEAN,
            hasPullRequest : BOOLEAN, draft : BOOLEAN, hasHead : BOOLEAN,
            hasRepository : BOOLEAN, hasOwner : BOOLEAN,
            hasInstallation : BOOLEAN, hasInstallationId : BOOLEAN] :
        /\ (b.draft \/ b.hasHead) => b.hasPullRequest
        /\ b.draft => b.hasHead
        /\ b.hasOwner => b.hasRepository
        /\ b.hasInstallationId => b.hasInstallation}

\* 'sha256=' + HMAC-SHA256(secret, payload) as a header value: its length and what the
\* digest was computed from (equal digests come from equal keys and messages only)
hmacHeader(secret, payload) ==
    [present |-> TRUE, len |-> SignatureLength, key |-> secret, msg |-> payload]

NoHeader == [present |-> FALSE, len |-> 0, key |-> "none", msg |-> NotJson]

\* crypto.timingSafeEqual on the two buffers: it throws on buffers of different length
timingSafeEqualThrows(a, b) == a.len # b.len
timingSafeEqual(a, b) == a = b

\* a verifySignature that compares the digests and not the lengths
verifySignatureNoLength(payload, signature, secret) ==
    LET expectedSignature == hmacHeader(secret, payload)
    IN  signature.key = expectedSignature.key /\ signature.msg = expectedSignature.msg

verifySignature(payload, signature, secret) ==
    LET expectedSignature == hmacHeader(secret, payload)
    IN  IF timingSafeEqualThrows(signature, expectedSignature)
        THEN FALSE
        ELSE timingSafeEqual(signature, expectedSignature)

\* rawBodyMiddleware: req.rawBody is the text received; req.body is JSON.parse of it, or
\* {} when that throws
rawBodyMiddleware(raw) ==
    [rawBody |-> raw, body |-> IF raw.parses THEN raw ELSE [NotJson EXCEPT !.parses = TRUE]]

isValidPRPayload(body) ==
    /\ body.action # "absent"
    /\ body.hasNumber
    /\ body.hasPullRequest
    /\ body.hasRepository

Response(status, kind, reason) == [status |-> status, kind |-> kind, reason |-> reason]

\* signatureMiddleware: the response it sends, or next
signatureMiddleware(r, parsed) ==
    IF ~r.signature.present
    THEN Response(401, "error", "Missing signature header")
    ELSE IF ~verifySignature(parsed.rawBody, r.signature, WebhookSecret)
    THEN Response(401, "error", "Invalid signature")
    ELSE Response(0, "next", "")

\* a handler that looks for the installation id before it looks at the draft flag
postHandlerDraftLate(r, body) ==
    IF r.event # "pull_request"
    THEN Response(200, "ignored", "not a pull_request event")
    ELSE IF body.action = "absent" \/ ~body.hasNumber \/ ~body.hasPullRequest \/ ~body.hasRepository
    THEN Response(400, "error", "Invalid payload")
    ELSE IF body.action \notin SUPPORTED_ACTIONS
    THEN Response(200, "ignored", "unsupported action")
    ELSE IF ~body.hasInstallationId
    THEN Response(400, "error", "Missing installation ID")
    ELSE IF body.draft
    THEN Response(200, "ignored", "draft PR")
    ELSE IF ~body.hasOwner \/ ~body.hasHead
    THEN Response(500, "error", "Internal server error")
    ELSE Response(202, "accepted", "Review job queued")

\* router.post('/'): the response, and whether queue.enqueue(job) is called. Building the
\* job reads payload.repository.owner.login and payload.pull_request.head.sha: with owner
\* or head missing that throws a TypeError, which the app's error handler answers 500.
postHandler(r, body) ==
    IF r.event # "pull_request"
    THEN Response(200, "ignored", "not a pull_request event")
    ELSE IF ~isValidPRPayload(body)
    THEN Response(400, "error", "Invalid payload")
    ELSE IF body.action \notin SUPPORTED_ACTIONS
    THEN Response(200, "ignored", "unsupported action")
    ELSE IF body.draft
    THEN Response(200, "ignored", "draft PR")
    ELSE IF ~body.hasInstallationId
    THEN Response(400, "error", "Missing installation ID")
    ELSE IF ~body.hasOwner \/ ~body.hasHead
    THEN Response(500, "error", "Internal server error")
    ELSE Response(202, "accepted", "Review job queued")

\* the whole chain for one request
handleRequest(r) ==
    LET parsed == rawBodyMiddleware(r.rawBody)
        sig == signatureMiddleware(r, parsed)
    IN  IF sig.kind # "next" THEN sig ELSE postHandler(r, parsed.body)

\* the X-Hub-Signature-256 values a sender may give for a body
SignatureHeaders(raw) ==
    {NoHeader,
     hmacHeader(WebhookSecret, raw),
     hmacHeader("other-secret", raw),
     hmacHeader(WebhookSecret, IF raw = NotJson THEN [NotJson EXCEPT !.parses = TRUE] ELSE NotJson),
     [hmacHeader(WebhookSecret, raw) EXCEPT !.len = SignatureLength - 1]}

EventHeaders == {"pull_request", "push", "absent"}

NoRequest == [signature |-> NoHeader, rawBody |-> NotJson, event |-> "absent"]

InitWeb ==
    /\ req = NoRequest
    /\ resp = Response(0, "none", "")
    /\ reqEnqueued = {}

\* one POST /webhook, from the first middleware to the response; the server takes the
\* request once the one before it has been answered (the chain runs without awaiting)
PostWebhook ==
    /\ resp.kind = "none"
    /\ \E raw \in RawBodies, event \in EventHeaders :
        \E signature \in SignatureHeaders(raw) :
          LET r == [signature |-> signature, rawBody |-> raw, event |-> event]
              answer == handleRequest(r)
          IN  /\ answer.status = 202 => nextJobId <= MaxAccepted
              /\ req' = r
              /\ resp' = answer
              /\ IF answer.status = 202
                 THEN /\ SetQueue(enqueue(queueNow, nextJobId))
                      /\ nextJobId' = nextJobId + 1
                      /\ reqEnqueued' = {nextJobId}
                 ELSE /\ reqEnqueued' = {}
                      /\ UNCHANGED <<jobs, processing, inFlight, handed, nextJobId>>
    /\ UNCHANGED <<processor, completedJobs, failedJobs, riskVars, reviewVars, coreVars>>

\* the response has been written out and the request is over
RequestDone ==
    /\ resp.kind # "none"
    /\ req' = NoRequest
    /\ resp' = Response(0, "none", "")
    /\ reqEnqueued' = {}
    /\ UNCHANGED <<queueVars, riskVars, reviewVars, coreVars>>

(***************************************************************************)
(* Reviewer worker: configuration, file categorisation, chunking           *)
(***************************************************************************)
\* the WorkerConfig defaults; confidenceThreshold in hundredths
DefaultWorkerConfig ==
    [llmProvider |-> "openai", openaiModel |-> "gpt-4-turbo-preview",
     maxInlineComments |-> 10, riskThreshold |-> 85, confidenceThreshold |-> 50,
     enableEslint |-> TRUE, enableSemgrep |-> TRUE, enableRuff |-> TRUE,
     enableBandit |-> TRUE, enableGosec |-> TRUE, enableStaticcheck |-> TRUE,
     enableOsvScan |-> TRUE]

\* A DiffFile by what the orchestrator reads of it.  The path is kept in parts
\* (directories, file stem, extension; stems hold no dot); formattedChars is the
\* length of formatDiffFileForLLM(file).
DiffFile(dirs, stem, ext, isBinary, lines, formattedChars) ==
    [dirs |-> dirs, stem |-> stem, ext |-> ext, isBinary |-> isBinary,
     lines |-> lines, formattedChars |-> formattedChars]

getFilePath(file) == [dirs |-> file.dirs, stem |-> file.stem, ext |-> file.ext]

LOCKFILE_PATTERNS == {<<"package-lock", "json">>, <<"pnpm-lock", "yaml">>, <<"yarn", "lock">>,
                      <<"poetry", "lock">>, <<"Pipfile", "lock">>, <<"go", "sum">>,
                      <<"Cargo", "lock">>, <<"Gemfile", "lock">>, <<"composer", "lock">>}

\* DEFAULT_FILTER_CONFIG, its patterns grouped by what they match: 'dir/**' patterns,
\* whole file names and '*.ext' patterns ('*.x.*' patterns need a dot in the stem)
DEFAULT_FILTER_CONFIG ==
    [excludeDirs |-> {"dist", "build", "out", ".next", ".nuxt", "node_modules", "vendor",
                      "third_party", ".vendor", ".idea", ".vscode"},
     excludeNames |-> LOCKFILE_PATTERNS \cup {<<"CHANGELOG", "md">>},
     excludeExts |-> {"svg", "png", "jpg", "jpeg", "gif", "ico", "woff", "woff2", "ttf", "eot"},
     includePatterns |-> {},
     skipBinary |-> TRUE,
     maxLines |-> 1000,
     allowLockfilesForDeps |-> TRUE]

\* matchPattern over the exclude patterns: does any of them match the path
matchPattern(path, cfg) ==
    \/ \E k \in 1..Len(path.dirs) : path.dirs[k] \in cfg.excludeDirs
    \/ <<path.stem, path.ext>> \in cfg.excludeNames
    \/ path.ext \in cfg.excludeExts

shouldExcludeFile(file) ==
    LET cfg == DEFAULT_FILTER_CONFIG IN
    IF cfg.skipBinary /\ file.isBinary THEN TRUE
    ELSE IF file.lines > cfg.maxLines THEN TRUE
    ELSE matchPattern(getFilePath(file), cfg)

isLockfile(filePath) == <<filePath.stem, filePath.ext>> \in LOCKFILE_PATTERNS

categorizeFiles(files) ==
    LET cfg == DEFAULT_FILTER_CONFIG
        lock(f) == isLockfile(getFilePath(f))
    IN  [sourceFiles |-> SelectSeq(files, LAMBDA f : ~lock(f) /\ ~shouldExcludeFile(f)),
         lockfiles |-> SelectSeq(files, LAMBDA f : lock(f) /\ cfg.allowLockfilesForDeps),
         excluded |-> SelectSeq(files, LAMBDA f : IF lock(f) THEN ~cfg.allowLockfilesForDeps
                                                  ELSE shouldExcludeFile(f))]

DEFAULT_CHUNK_CONFIG == [maxTokens |-> 4000, maxFilesPerChunk |-> 5]

\* Math.ceil(text.length / 4), on the length
estimateTokens(chars) == (chars + 3) \div 4

RECURSIVE charsJoined(_)
\* the length of the files' formatted texts joined by two newlines
charsJoined(files) ==
    IF files = <<>> THEN 0
    ELSE Head(files).formattedChars + (IF Len(files) > 1 THEN 2 ELSE 0) + charsJoined(Tail(files))

\* a createChunk that makes a chunk even when no file is pending
createChunkEager(done, currentFiles) ==
    Append(done, [index |-> Len(done),
                  files |-> currentFiles,
                  estimatedTokens |-> estimateTokens(charsJoined(currentFiles))])

\* createChunk of chunkDiff: nothing when no file is pending
createChunk(done, currentFiles) ==
    IF currentFiles = <<>> THEN done
    ELSE Append(done, [index |-> Len(done),
                         files |-> currentFiles,
                         estimatedTokens |-> estimateTokens(charsJoined(currentFiles))])

RECURSIVE chunkLoop(_, _, _, _, _)
chunkLoop(files, cfg, done, currentFiles, currentTokens) ==
    IF files = <<>> THEN createChunk(done, currentFiles)
    ELSE LET file == Head(files)
             fileTokens == estimateTokens(file.formattedChars)
             own == fileTokens > cfg.maxTokens /\ currentFiles # <<>>
             files1 == IF own THEN <<>> ELSE currentFiles
             tokens1 == IF own THEN 0 ELSE currentTokens
             chunks1 == IF own THEN createChunk(done, currentFiles) ELSE done
             cut == \/ tokens1 + fileTokens > cfg.maxTokens
                    \/ Len(files1) >= cfg.maxFilesPerChunk
             files2 == IF cut THEN <<>> ELSE files1
             tokens2 == IF cut THEN 0 ELSE tokens1
             chunks2 == IF cut THEN createChunk(chunks1, files1) ELSE chunks1
         IN  chunkLoop(Tail(files), cfg, chunks2, Append(files2, file), tokens2 + fileTokens)

\* chunkDiff(diff, config), the config merged over DEFAULT_CHUNK_CONFIG
chunkDiffWith(files, cfg) == chunkLoop(files, cfg, <<>>, <<>>, 0)

\* chunkDiff(diff)
chunkDiff(files) == chunkDiffWith(files, DEFAULT_CHUNK_CONFIG)

(***************************************************************************)
(* Reviewer worker: aggregation                                            *)
(***************************************************************************)
\* an Issue on one line with a short message and no evidence; message and evidence are
\* kept by their lengths
Issue(category, severity, confidence, file_path, line, subtype, source_tool) ==
    [category |-> category, severity |-> severity, confidence |-> confidence,
     file_path |-> file_path, line_start |-> line, line_end |-> line,
     subtype |-> subtype, source_tool |-> source_tool,
     message_length |-> 40, evidence_length |-> 0]

\* a rule id of 59 characters
LongRuleId == "javascript.express.security.audit.xss.direct-response-write"

\* a rule id of 35 characters with the same first 20
OtherRuleId == "javascript.express.session-fixation"

\* String.prototype.length of a subtype; every other subtype used has 4 to 16 characters
subtypeLength(subtype) ==
    IF subtype = LongRuleId THEN 59 ELSE IF subtype = OtherRuleId THEN 35 ELSE 10

\* subtype.slice(0, 20)
subtypeSlice(subtype) ==
    IF subtype \in {LongRuleId, OtherRuleId} THEN "javascript.express.s" ELSE subtype

\* IssueSchema.safeParse(...).success, on the fields kept; confidence in hundredths
IssueSchemaAccepts(issue) ==
    /\ issue.category \in Categories
    /\ subtypeLength(issue.subtype) >= 1 /\ subtypeLength(issue.subtype) <= 50
    /\ issue.severity \in Severities
    /\ issue.confidence >= 0 /\ issue.confidence <= 100
    /\ issue.file_path.stem # ""
    /\ issue.line_start > 0
    /\ issue.line_end > 0
    /\ issue.message_length >= 1 /\ issue.message_length <= 900
    /\ issue.evidence_length <= 500

validateLineRange(start, end) == start > 0 /\ end >= start

createDedupeKey(issue) ==
    <<issue.file_path, issue.line_start, issue.line_end, issue.category,
      subtypeSlice(issue.subtype)>>

\* a replacement rule looking at the confidence only
shouldReplaceByConfidence(existing, newIssue) == newIssue.confidence > existing.confidence

shouldReplace(existing, newIssue) ==
    LET severityOrder == [critical |-> 4, high |-> 3, medium |-> 2, low |-> 1]
        existingSev == severityOrder[existing.severity]
        newSev == severityOrder[newIssue.severity]
    IN  IF newSev > existingSev THEN TRUE
        ELSE IF newSev < existingSev THEN FALSE
        ELSE newIssue.confidence > existing.confidence

RECURSIVE dedupeInto(_, _)
\* the Map's values in insertion order, after the issues xs went through the loop
dedupeInto(seen, xs) ==
    IF xs = <<>> THEN seen
    ELSE LET issue == Head(xs)
             key == createDedupeKey(issue)
             at == {k \in 1..Len(seen) : createDedupeKey(seen[k]) = key}
         IN  IF at = {} THEN dedupeInto(Append(seen, issue), Tail(xs))
             ELSE LET k == CHOOSE k \in at : TRUE
                  IN  IF shouldReplace(seen[k], issue)
                      THEN dedupeInto([seen EXCEPT ![k] = issue], Tail(xs))
                      ELSE dedupeInto(seen, Tail(xs))

deduplicateIssues(xs) == dedupeInto(<<>>, xs)

RECURSIVE insertByPriority(_, _)
insertByPriority(sorted, issue) ==
    IF sorted = <<>> THEN <<issue>>
    ELSE IF getIssueScore(Head(sorted)) >= getIssueScore(issue)
         THEN <<Head(sorted)>> \o insertByPriority(Tail(sorted), issue)
         ELSE <<issue>> \o sorted

RECURSIVE sortIssuesByPriority(_)
\* a stable sort, highest getIssueScore first
sortIssuesByPriority(xs) ==
    IF xs = <<>> THEN <<>>
    ELSE insertByPriority(sortIssuesByPriority(SubSeq(xs, 1, Len(xs) - 1)), xs[Len(xs)])

mergeToolResults(a, b) == a \o b

\* an aggregation scoring the capped selection only
aggregateSelectedOnly(xs, cfg) ==
    LET filtered == SelectSeq(deduplicateIssues(xs), LAMBDA i : i.confidence >= cfg.confidenceThreshold)
        sorted == sortIssuesByPriority(filtered)
        selected == SubSeq(sorted, 1, Min(Len(sorted), cfg.maxInlineComments))
    IN  [inlineComments |-> selected,
         allIssues |-> filtered,
         riskScore |-> calculateRiskScore(selected),
         stats |-> [totalFound |-> Len(xs), afterDedup |-> Len(deduplicateIssues(xs)),
                    afterFiltering |-> Len(filtered), selected |-> Len(selected)]]

aggregateIssues(xs, cfg) ==
    LET deduplicated == deduplicateIssues(xs)
        filtered == SelectSeq(deduplicated, LAMBDA i : i.confidence >= cfg.confidenceThreshold)
        sorted == sortIssuesByPriority(filtered)
        selected == SubSeq(sorted, 1, Min(Len(sorted), cfg.maxInlineComments))
    IN  [inlineComments |-> selected,
         allIssues |-> filtered,
         riskScore |-> calculateRiskScore(filtered),
         stats |-> [totalFound |-> Len(xs), afterDedup |-> Len(deduplicated),
                    afterFiltering |-> Len(filtered), selected |-> Len(selected)]]

(***************************************************************************)
(* Calls of aggregateIssues                                                *)
(***************************************************************************)
\* the issues aggregateIssues is driven with: colliding keys with different severities
\* and confidences, rule ids equal in their first 20 characters, other keys, and a
\* confidence below the threshold
AggInputs ==
    LET app == [dirs |-> <<"src">>, stem |-> "app", ext |-> "ts"]
    IN  {Issue("security", "high", 80, app, 5, "sql-injection", "semgrep"),
         Issue("security", "high", 90, app, 5, "sql-injection", "llm"),
         Issue("security", "critical", 60, app, 5, "sql-injection", "llm"),
         Issue("security", "medium", 80, app, 8, LongRuleId, "semgrep"),
         Issue("security", "low", 80, app, 8, OtherRuleId, "semgrep"),
         Issue("style", "medium", 90, app, 5, "semi", "eslint"),
         Issue("correctness", "high", 70, app, 9, "null-deref", "llm"),
         Issue("maintainability", "low", 40, app, 1, "naming", "llm")}

InitCore ==
    /\ aggInput = <<>>
    /\ aggConfig = DefaultWorkerConfig
    /\ dedupResult = deduplicateIssues(<<>>)
    /\ aggResult = aggregateIssues(<<>>, DefaultWorkerConfig)

\* a caller aggregates the list grown by one issue, under some cap of inline comments
AggregateIssues ==
    /\ Len(aggInput) < MaxAggIssues
    /\ \E i \in AggInputs, cap \in 1..MaxInlineCap :
          LET xs == Append(aggInput, i)
              cfg == [DefaultWorkerConfig EXCEPT !.maxInlineComments = cap]
          IN  /\ aggInput' = xs
              /\ aggConfig' = cfg
              /\ dedupResult' = deduplicateIssues(xs)
              /\ aggResult' = aggregateIssues(xs, cfg)
    /\ UNCHANGED <<riskVars, queueVars, webVars, reviewVars, chunkVars, parseVars, tokenVars, toolVars, llmVars>>

(***************************************************************************)
(* Calls of chunkDiff                                                      *)
(***************************************************************************)
\* the files chunkDiff is driven with, by the length of their formatted text: two of
\* 8000 characters (2000 tokens each), a small one and one over the default budget
ChunkInputs == {DiffFile(<<"src">>, "server", "ts", FALSE, 200, 8000),
                DiffFile(<<"src">>, "client", "tsx", FALSE, 200, 8000),
                DiffFile(<<"src">>, "app", "ts", FALSE, 12, 399),
                DiffFile(<<>>, "package-lock", "json", FALSE, 500, 20000)}

\* the configs: the default, one file per chunk, a small budget
ChunkConfigs == {DEFAULT_CHUNK_CONFIG,
                 [DEFAULT_CHUNK_CONFIG EXCEPT !.maxFilesPerChunk = 1],
                 [maxTokens |-> 100, maxFilesPerChunk |-> 2]}

InitChunk ==
    /\ chunkFiles = <<>>
    /\ chunkConfig = DEFAULT_CHUNK_CONFIG
    /\ chunkResult = chunkDiffWith(<<>>, DEFAULT_CHUNK_CONFIG)

\* a caller chunks the diff grown by one file, under some config
ChunkDiff ==
    /\ Len(chunkFiles) < MaxChunkFiles
    /\ \E f \in ChunkInputs, cfg \in ChunkConfigs :
          /\ chunkFiles' = Append(chunkFiles, f)
          /\ chunkConfig' = cfg
          /\ chunkResult' = chunkDiffWith(Append(chunkFiles, f), cfg)
    /\ UNCHANGED <<riskVars, queueVars, webVars, reviewVars, aggVars, parseVars, tokenVars, toolVars, llmVars>>

(***************************************************************************)
(* Diff parser                                                             *)
(***************************************************************************)
\* The lines of a diff, by what the parser's regular expressions see of them.  A
\* content line is its first character (sign), what its text begins with (lead: "",
\* "++ ", "++", "-- " or "--") and the rest of the text.
DiffHeaderLine(a, b) == [kind |-> "diff", a |-> a, b |-> b]
MetaLine(kind) == [kind |-> kind]
PathLine(kind, path) == [kind |-> kind, path |-> path]
SimilarityLine(value) == [kind |-> "similarity", value |-> value]
\* "@@ -oldStart,oldCount +newStart,newCount @@"; a count left out is -1
HunkHeaderLine(oldStart, oldCount, newStart, newCount) ==
    [kind |-> "hunk", oldStart |-> oldStart, oldCount |-> oldCount,
     newStart |-> newStart, newCount |-> newCount]
ContentLine(sign, lead, rest) == [kind |-> "content", sign |-> sign, lead |-> lead, rest |-> rest]

\* null
NullPath == "<null>"
DevNull == "/dev/null"

\* OLD_FILE_REGEX /^--- (?:a\/)?(.+)$/ matches: a "--- path" line, and a removed line
\* whose text begins with "-- "
matchesOldFile(line) ==
    \/ line.kind = "oldFile"
    \/ line.kind = "content" /\ line.sign = "-" /\ line.lead = "-- " /\ line.rest # ""

\* NEW_FILE_REGEX /^\+\+\+ (?:b\/)?(.+)$/
matchesNewFile(line) ==
    \/ line.kind = "newFile"
    \/ line.kind = "content" /\ line.sign = "+" /\ line.lead = "++ " /\ line.rest # ""

\* the path group of either match
matchedPath(line) == IF line.kind = "content" THEN line.rest ELSE line.path

\* line.startsWith('+') && !line.startsWith('+++')
isAddedLine(line) == line.sign = "+" /\ line.lead \notin {"++ ", "++"}
\* line.startsWith('-') && !line.startsWith('---')
isRemovedLine(line) == line.sign = "-" /\ line.lead \notin {"-- ", "--"}
\* line.startsWith(' ') || line === ''
isContextLine(line) == line.sign \in {" ", ""}

\* line.slice(1)
sliceOne(line) == [lead |-> line.lead, rest |-> line.rest]

\* the parser's variables before the first line
ParserStart ==
    [files |-> <<>>, currentFile |-> <<>>, currentHunk |-> <<>>,
     oldLineNum |-> 0, newLineNum |-> 0, hunkContent |-> <<>>]

finalizeHunk(st) ==
    IF st.currentHunk # <<>> /\ st.currentFile # <<>>
    THEN [st EXCEPT !.currentFile[1].hunks =
                        Append(@, [st.currentHunk[1] EXCEPT !.content = st.hunkContent]),
                    !.currentHunk = <<>>,
                    !.hunkContent = <<>>]
    ELSE [st EXCEPT !.currentHunk = <<>>, !.hunkContent = <<>>]

finalizeFile(st) ==
    LET s == finalizeHunk(st)
    IN  IF s.currentFile # <<>>
        THEN [s EXCEPT !.files = Append(@, s.currentFile[1]), !.currentFile = <<>>]
        ELSE s

\* parseInt(group ?? default): a count left out is 1
countOr1(n) == IF n = -1 THEN 1 ELSE n

\* a new-file-mode line that leaves the old path of the header in place
newFileModeKeepsOldPath(st) == [st EXCEPT !.currentFile[1].type = "add"]

\* the handling of a 'new file mode' line
newFileMode(st) ==
    [st EXCEPT !.currentFile[1].type = "add", !.currentFile[1].oldPath = NullPath]

\* the handling of a line inside a hunk
hunkContentLine(st, line) ==
    LET s == [st EXCEPT !.hunkContent = Append(@, line)]
    IN  IF isAddedLine(line)
        THEN [s EXCEPT !.currentHunk[1].addedLines =
                           Append(@, [lineNumber |-> st.newLineNum, content |-> sliceOne(line)]),
                       !.currentFile[1].linesAdded = @ + 1,
                       !.newLineNum = @ + 1]
        ELSE IF isRemovedLine(line)
        THEN [s EXCEPT !.currentHunk[1].removedLines =
                           Append(@, [lineNumber |-> st.oldLineNum, content |-> sliceOne(line)]),
                       !.currentFile[1].linesRemoved = @ + 1,
                       !.oldLineNum = @ + 1]
        ELSE IF isContextLine(line)
        THEN [s EXCEPT !.oldLineNum = @ + 1, !.newLineNum = @ + 1]
        ELSE s

\* one iteration of parseDiff's loop
parseLine(st, line) ==
    IF line.kind = "diff"
    THEN [finalizeFile(st) EXCEPT !.currentFile =
             <<[oldPath |-> line.a, newPath |-> line.b, type |-> "modify", isBinary |-> FALSE,
                similarity |-> -1, hunks |-> <<>>, linesAdded |-> 0, linesRemoved |-> 0]>>]
    ELSE IF st.currentFile = <<>> THEN st
    ELSE IF line.kind = "renameFrom"
    THEN [st EXCEPT !.currentFile[1].oldPath = line.path, !.currentFile[1].type = "rename"]
    ELSE IF line.kind = "renameTo"
    THEN [st EXCEPT !.currentFile[1].newPath = line.path, !.currentFile[1].type = "rename"]
    ELSE IF line.kind = "similarity"
    THEN [st EXCEPT !.currentFile[1].similarity = line.value]
    ELSE IF line.kind = "binary"
    THEN [st EXCEPT !.currentFile[1].isBinary = TRUE]
    ELSE IF line.kind = "newFileMode" THEN newFileMode(st)
    ELSE IF line.kind = "deletedFileMode"
    THEN [st EXCEPT !.currentFile[1].type = "delete", !.currentFile[1].newPath = NullPath]
    ELSE IF matchesOldFile(line)
    THEN IF matchedPath(line) = DevNull
         THEN [st EXCEPT !.currentFile[1].oldPath = NullPath, !.currentFile[1].type = "add"]
         ELSE [st EXCEPT !.currentFile[1].oldPath = matchedPath(line)]
    ELSE IF matchesNewFile(line)
    THEN IF matchedPath(line) = DevNull
         THEN [st EXCEPT !.currentFile[1].newPath = NullPath, !.currentFile[1].type = "delete"]
         ELSE [st EXCEPT !.currentFile[1].newPath = matchedPath(line)]
    ELSE IF line.kind = "hunk"
    THEN [finalizeHunk(st) EXCEPT
             !.oldLineNum = line.oldStart,
             !.newLineNum = line.newStart,
             !.currentHunk = <<[oldStart |-> line.oldStart, oldCount |-> countOr1(line.oldCount),
                                newStart |-> line.newStart, newCount |-> countOr1(line.newCount),
                                content |-> <<>>, addedLines |-> <<>>, removedLines |-> <<>>]>>,
             !.hunkContent = <<line>>]
    ELSE IF st.currentHunk # <<>> THEN hunkContentLine(st, line)
    ELSE st

RECURSIVE parseLines(_, _)
parseLines(st, lines) ==
    IF lines = <<>> THEN st ELSE parseLines(parseLine(st, Head(lines)), Tail(lines))

RECURSIVE sumOf(_, _)
sumOf(files, field) == IF files = <<>> THEN 0 ELSE Head(files)[field] + sumOf(Tail(files), field)

\* parseDiff, of the lines diffContent.split('\n') gives
parseDiff(lines) ==
    LET files == finalizeFile(parseLines(ParserStart, lines)).files
    IN  [files |-> files,
         totalLinesAdded |-> sumOf(files, "linesAdded"),
         totalLinesRemoved |-> sumOf(files, "linesRemoved"),
         totalFilesChanged |-> Len(files)]

\* ---- the diffs parseDiff is given: what `git diff` writes, line by line ----
MaxDiffLines == 8
MaxHunkCount == 2
MaxHunks == 2

FileKinds == {"modify", "add", "delete", "rename", "renameModify", "binary", "binaryAdd"}

\* the lines git writes before the first hunk of a file
Preamble(kind) ==
    CASE kind = "modify" ->
           <<DiffHeaderLine("a.sql", "a.sql"), PathLine("oldFile", "a.sql"), PathLine("newFile", "a.sql")>>
      [] kind = "add" ->
           <<DiffHeaderLine("a.sql", "a.sql"), MetaLine("newFileMode"),
             PathLine("oldFile", DevNull), PathLine("newFile", "a.sql")>>
      [] kind = "delete" ->
           <<DiffHeaderLine("a.sql", "a.sql"), MetaLine("deletedFileMode"),
             PathLine("oldFile", "a.sql"), PathLine("newFile", DevNull)>>
      [] kind = "rename" ->
           <<DiffHeaderLine("a.sql", "b.sql"), SimilarityLine(100),
             PathLine("renameFrom", "a.sql"), PathLine("renameTo", "b.sql")>>
      [] kind = "renameModify" ->
           <<DiffHeaderLine("a.sql", "b.sql"), SimilarityLine(90),
             PathLine("renameFrom", "a.sql"), PathLine("renameTo", "b.sql"),
             PathLine("oldFile", "a.sql"), PathLine("newFile", "b.sql")>>
      [] kind = "binary" ->
           <<DiffHeaderLine("logo.png", "logo.png"), MetaLine("binary")>>
      [] kind = "binaryAdd" ->
           <<DiffHeaderLine("logo.png", "logo.png"), MetaLine("newFileMode"), MetaLine("binary")>>

hasHunks(kind) == kind \in {"modify", "add", "delete", "renameModify"}

\* the old and new line counts a hunk of a file of this kind can have
HunkCounts(kind) ==
    CASE kind = "add" -> {<<0, n>> : n \in 1..MaxHunkCount}
      [] kind = "delete" -> {<<n, 0>> : n \in 1..MaxHunkCount}
      [] OTHER -> ((0..MaxHunkCount) \X (0..MaxHunkCount)) \ {<<0, 0>>}

\* git leaves a count of 1 out of the hunk header
writtenCount(n) == IF n = 1 THEN -1 ELSE n

\* where the hunkNo-th hunk of a file starts: an empty side starts one line earlier
hunkStart(hunkNo, count) == IF count = 0 THEN 10 * hunkNo - 10 ELSE 10 * hunkNo - 9

GenStart == [phase |-> "between", kind |-> "modify", pos |-> 0, hunkNo |-> 0, oldLeft |-> 0, newLeft |-> 0]

\* the content lines a hunk with these counts left can continue with
BodyLines(g) ==
    {ContentLine("+", lead, "x") : lead \in IF g.newLeft > 0 THEN {"", "++ ", "++"} ELSE {}}
    \cup {ContentLine("-", lead, "y") : lead \in IF g.oldLeft > 0 THEN {"", "-- ", "--"} ELSE {}}
    \cup (IF g.oldLeft > 0 /\ g.newLeft > 0 THEN {ContentLine(" ", "", "c")} ELSE {})

afterBodyLine(g, line) ==
    LET o == IF line.sign \in {"-", " "} THEN g.oldLeft - 1 ELSE g.oldLeft
        n == IF line.sign \in {"+", " "} THEN g.newLeft - 1 ELSE g.newLeft
    IN  [g EXCEPT !.oldLeft = o, !.newLeft = n,
                  !.phase = IF o = 0 /\ n = 0 THEN "hunkDone" ELSE "body"]

\* the first line of the next file, or the empty string after the last newline
FileStarts(g) ==
    {<<Preamble(k)[1], [g EXCEPT !.phase = "preamble", !.kind = k, !.pos = 1, !.hunkNo = 0]>> : k \in FileKinds}
    \cup (IF g.pos > 0 THEN {<<ContentLine("", "", ""), [g EXCEPT !.phase = "end"]>>} ELSE {})

HunkStarts(g) ==
    IF hasHunks(g.kind) /\ g.hunkNo < MaxHunks
    THEN {<<HunkHeaderLine(hunkStart(g.hunkNo + 1, c[1]), writtenCount(c[1]),
                           hunkStart(g.hunkNo + 1, c[2]), writtenCount(c[2])),
            [g EXCEPT !.phase = "body", !.hunkNo = @ + 1, !.oldLeft = c[1], !.newLeft = c[2]]>>
          : c \in HunkCounts(g.kind)}
    ELSE {}

\* a text that is not a diff of git's: a hunk header, and content lines, before any
\* 'diff --git' line
OrphanHunk(g) ==
    IF g.pos = 0
    THEN {<<HunkHeaderLine(1, -1, 1, -1), [g EXCEPT !.phase = "orphan"]>>}
    ELSE {}

\* the lines that can follow, each with the position it leads to
NextLines(g) ==
    CASE g.phase = "between" -> FileStarts(g) \cup OrphanHunk(g)
      [] g.phase = "orphan" -> FileStarts(g) \cup {<<ContentLine("+", "", "x"), g>>}
      [] g.phase = "preamble" ->
           {<<Preamble(g.kind)[g.pos + 1],
              [g EXCEPT !.pos = @ + 1,
                        !.phase = IF g.pos + 1 < Len(Preamble(g.kind)) THEN "preamble"
                                  ELSE IF hasHunks(g.kind) THEN "hunkHeader" ELSE "between"]>>}
      [] g.phase = "hunkHeader" -> HunkStarts(g)
      [] g.phase = "body" -> {<<l, afterBodyLine(g, l)>> : l \in BodyLines(g)}
      [] g.phase = "hunkDone" ->
           {<<ContentLine("\\", "", " No newline at end of file"), [g EXCEPT !.phase = "hunkClosed"]>>}
           \cup HunkStarts(g) \cup FileStarts(g)
      [] g.phase = "hunkClosed" -> HunkStarts(g) \cup FileStarts(g)
      [] OTHER -> {}

InitParse ==
    /\ diffLines = <<>>
    /\ diffGen = GenStart
    /\ parsedDiff = parseDiff(<<>>)

\* parseDiff(diffContent), of a diff one line longer
ParseDiff ==
    /\ Len(diffLines) < MaxDiffLines
    /\ \E next \in NextLines(diffGen) :
          /\ diffLines' = Append(diffLines, next[1])
          /\ diffGen' = next[2]
          /\ parsedDiff' = parseDiff(diffLines')
    /\ UNCHANGED <<riskVars, queueVars, webVars, reviewVars, aggVars, chunkVars, tokenVars, toolVars, llmVars>>

(***************************************************************************)
(* Reviewer worker: runReview, processJob and the broker's job              *)
(***************************************************************************)
\* the pull requests the worker is driven with, as their parsed diffs
AppTs == DiffFile(<<"src">>, "app", "ts", FALSE, 12, 400)
ServerTs == DiffFile(<<"src">>, "server", "ts", FALSE, 300, 12000)
ClientTsx == DiffFile(<<"src">>, "client", "tsx", FALSE, 300, 12000)
UtilPy == DiffFile(<<"lib">>, "util", "py", FALSE, 20, 800)
MainGo == DiffFile(<<"cmd">>, "main", "go", FALSE, 20, 800)
PackageLock == DiffFile(<<>>, "package-lock", "json", FALSE, 500, 20000)
BundleJs == DiffFile(<<"dist">>, "bundle", "js", FALSE, 40, 1600)
LogoPng == DiffFile(<<"assets">>, "logo", "png", TRUE, 0, 60)
SchemaTs == DiffFile(<<"src">>, "schema", "ts", FALSE, 1500, 60000)
\* the manifest and the lockfile of a project depending on lodash@4.17.11
PackageJson == DiffFile(<<>>, "package", "json", FALSE, 4, 300)

ParsedDiffs == {<<>>, <<BundleJs, LogoPng>>, <<SchemaTs>>, <<AppTs>>, <<ServerTs, ClientTsx>>,
                <<UtilPy>>, <<MainGo>>, <<PackageLock>>, <<AppTs, PackageLock, LogoPng>>,
                <<PackageJson>>}

\* runStaticTools: the runners started for these paths under this config
toolsToRun(files, cfg) ==
    LET hasJs == \E k \in 1..Len(files) : files[k].ext \in {"js", "jsx", "ts", "tsx"}
        hasPy == \E k \in 1..Len(files) : files[k].ext = "py"
        hasGo == \E k \in 1..Len(files) : files[k].ext = "go"
    IN  {t \in {"eslint"} : hasJs /\ cfg.enableEslint}
        \cup {t \in {"semgrep"} : cfg.enableSemgrep}
        \cup {t \in {"ruff"} : hasPy /\ cfg.enableRuff}
        \cup {t \in {"bandit"} : hasPy /\ cfg.enableBandit}
        \cup {t \in {"gosec"} : hasGo /\ cfg.enableGosec}
        \cup {t \in {"staticcheck"} : hasGo /\ cfg.enableStaticcheck}

\* a finding of each runner, with the fields its parser sets
toolFinding(tool, path) ==
    CASE tool = "eslint" -> Issue("style", "medium", 90, path, 3, "semi", "eslint")
      [] tool = "semgrep" -> Issue("security", "high", 80, path, 5, "sql-injection", "semgrep")
      [] tool = "ruff" -> Issue("style", "low", 90, path, 2, "E501", "ruff")
      [] tool = "bandit" -> Issue("security", "high", 90, path, 7, "B608", "bandit")
      [] tool = "gosec" -> Issue("security", "high", 90, path, 7, "G201", "gosec")
      [] tool = "staticcheck" -> Issue("correctness", "medium", 90, path, 4, "SA4006", "staticcheck")

\* the Issue parseSarifOutput makes of a SARIF result whose ruleId is a long rule id;
\* semgrepRunner sets its source_tool
parseSarifOutput(path) == Issue("security", "medium", 80, path, 8, LongRuleId, "semgrep")

\* the ToolResults a runner's run can resolve with; a runner never rejects
ToolRuns(tool, files) ==
    {[success |-> FALSE, issues |-> <<>>], [success |-> TRUE, issues |-> <<>>]}
    \cup {[success |-> TRUE, issues |-> <<toolFinding(tool, files[1])>>] : x \in {1} \cap DOMAIN files}
    \cup {[success |-> TRUE, issues |-> <<parseSarifOutput(files[1])>>] :
             x \in {k \in DOMAIN files : k = 1 /\ tool = "semgrep"}}

\* the lockfile content runReview hands to scanDependencies: the empty string
EmptyContent == [valid |-> FALSE, deps |-> <<>>]

\* JSON.parse in a try: no dependency when the content is no JSON
parsePackageJson(content) == IF content.valid THEN content.deps ELSE <<>>

\* the advisory of the database for lodash@4.17.11, with a CVSS score of 7.5 (in tenths)
LodashAdvisory == [package |-> "lodash", score |-> 75]

\* mapOsvSeverity, the score in tenths; "none" when the advisory has no severity
mapOsvSeverity(score) ==
    IF score = "none" THEN "medium"
    ELSE IF score >= 90 THEN "critical"
    ELSE IF score >= 70 THEN "high"
    ELSE IF score >= 40 THEN "medium"
    ELSE "low"

\* scanDependencies, with the advisories the vulnerability database holds: one issue
\* for each advisory of each dependency parsed from the content
scanDependencies(lockfileContent, lockfilePath, cfg, vulnerable) ==
    IF ~cfg.enableOsvScan THEN <<>>
    ELSE LET deps == IF lockfilePath.stem \in {"package-lock", "pnpm-lock"}
                        \/ <<lockfilePath.stem, lockfilePath.ext>> = <<"package", "json">>
                     THEN parsePackageJson(lockfileContent)
                     ELSE <<>>
             hit == SelectSeq(deps, LAMBDA d : \E v \in vulnerable : v.package = d)
         IN  [k \in 1..Len(hit) |->
                 LET v == CHOOSE v \in vulnerable : v.package = hit[k]
                 IN  [Issue("dependency", mapOsvSeverity(v.score), 95, lockfilePath, 1, "cve", "osv")
                        EXCEPT !.evidence_length = 200]]

RECURSIVE scanLockfiles(_, _, _)
\* the loop over categorized.lockfiles: the issues pushed
scanLockfiles(lockfiles, cfg, vulnerable) ==
    IF lockfiles = <<>> THEN <<>>
    ELSE scanDependencies(EmptyContent, getFilePath(Head(lockfiles)), cfg, vulnerable)
         \o scanLockfiles(Tail(lockfiles), cfg, vulnerable)

\* String.prototype.includes on paths: b is a trailing part of a
pathIncludes(a, b) ==
    /\ a.stem = b.stem
    /\ a.ext = b.ext
    /\ Len(b.dirs) <= Len(a.dirs)
    /\ SubSeq(a.dirs, Len(a.dirs) - Len(b.dirs) + 1, Len(a.dirs)) = b.dirs

\* parseResponse of the provider: the items the schema accepts whose file_path is
\* in the chunk
parseResponse(items, validPaths) ==
    SelectSeq(items, LAMBDA item :
        /\ IssueSchemaAccepts(item)
        /\ \E k \in 1..Len(validPaths) :
              pathIncludes(item.file_path, validPaths[k]) \/ pathIncludes(validPaths[k], item.file_path))

\* the issue lists a model's answer for a chunk can hold
LLMResponses(chunk) ==
    LET path == getFilePath(chunk.files[1])
        item == Issue("correctness", "high", 70, path, 9, "null-deref", "llm")
    IN  {<<>>,
         <<item>>,
         <<Issue("maintainability", "low", 40, path, 1, "naming", "llm")>>,
         <<Issue("security", "critical", 90, path, 12, "hardcoded-secret", "llm")>>,
         <<[item EXCEPT !.message_length = 1200]>>,
         <<[item EXCEPT !.line_start = 9, !.line_end = 4]>>,
         <<[item EXCEPT !.file_path = [dirs |-> <<"src">>, stem |-> "other", ext |-> "ts"]]>>}

\* what llmProvider.analyze can do for a chunk: reject, or resolve with issues
AnalyzeOutcomes(chunk) ==
    {[ok |-> FALSE, issues |-> <<>>]}
    \cup {[ok |-> TRUE,
           issues |-> parseResponse(items, [k \in 1..Len(chunk.files) |-> getFilePath(chunk.files[k])])] :
             items \in LLMResponses(chunk)}

\* a copy that keeps every occurrence
uniqKeepsAll(xs, seen) == xs

RECURSIVE uniq(_, _)
\* [...new Set(xs)]: first occurrences, in order
uniq(xs, seen) ==
    IF xs = <<>> THEN <<>>
    ELSE IF Head(xs) \in seen THEN uniq(Tail(xs), seen)
    ELSE <<Head(xs)>> \o uniq(Tail(xs), seen \cup {Head(xs)})

\* step 9 of runReview
buildOutput(aggregated, files, tools, model) ==
    [risk_score |-> aggregated.riskScore.score,
     risk_level |-> aggregated.riskScore.level,
     inline_comments |-> aggregated.inlineComments,
     summary_markdown |-> "",
     files_changed |-> Len(files),
     issues_found |-> Len(aggregated.allIssues),
     tools_run |-> uniq(tools, {}),
     model_used |-> model,
     category_breakdown |-> aggregated.riskScore.breakdown]

NoResult == [kind |-> "none", success |-> FALSE, output |-> <<>>, error |-> ""]
SuccessResult(o) == [kind |-> "result", success |-> TRUE, output |-> <<o>>, error |-> ""]
\* the catch of runReview
FailureResult(step) == [kind |-> "result", success |-> FALSE, output |-> <<>>, error |-> step]

\* createEmptyResult sets no category_breakdown: kept as the empty list
createEmptyResult ==
    SuccessResult([risk_score |-> 0,
                   risk_level |-> "low",
                   inline_comments |-> <<>>,
                   summary_markdown |-> "No reviewable files in this PR.",
                   files_changed |-> 0,
                   issues_found |-> 0,
                   tools_run |-> <<>>,
                   model_used |-> "none",
                   category_breakdown |-> <<>>])

\* the review event postReview chooses
reviewEvent(review) ==
    IF review.risk_level = "critical" THEN "REQUEST_CHANGES"
    ELSE IF review.risk_score < 10 /\ review.inline_comments = <<>> THEN "APPROVE"
    ELSE "COMMENT"

\* the conclusion updateCheckRun writes
checkRunConclusion(review, cfg) ==
    IF review.risk_score >= cfg.riskThreshold THEN "failure" ELSE "success"

\* RedisQueue adds jobs with attempts: 3
JobAttempts == 3

InitReview ==
    /\ brokerState = "waiting"
    /\ attemptsMade = 0
    /\ config = DefaultWorkerConfig
    /\ pc = "idle"
    /\ checkRunId = 0
    /\ checkRunStatus = "none"
    /\ checkConclusion = "none"
    /\ parsedFiles = <<>>
    /\ categorized = categorizeFiles(<<>>)
    /\ pendingTools = {}
    /\ toolResults = <<>>
    /\ toolsRun = <<>>
    /\ llmIssues = <<>>
    /\ chunksLeft = <<>>
    /\ output = <<>>
    /\ postedReviews = <<>>
    /\ reviewResult = NoResult
    /\ failedSteps = {}
    /\ osvAdvisories = {}
    /\ analysesOk = 0

\* The broker hands the waiting job to the Worker's processor, which calls processJob,
\* which calls runReview, which runs up to its first await: createCheckRun.
BrokerDeliver ==
    /\ brokerState = "waiting"
    /\ brokerState' = "active"
    /\ pc' = "createCheckRun"
    /\ checkRunId' = 0
    /\ parsedFiles' = <<>>
    /\ categorized' = categorizeFiles(<<>>)
    /\ pendingTools' = {}
    /\ toolResults' = <<>>
    /\ toolsRun' = <<>>
    /\ llmIssues' = <<>>
    /\ chunksLeft' = <<>>
    /\ output' = <<>>
    /\ reviewResult' = NoResult
    /\ failedSteps' = {}
    /\ analysesOk' = 0
    /\ UNCHANGED <<attemptsMade, config, checkRunStatus, checkConclusion, postedReviews,
                   osvAdvisories,
                   riskVars, queueVars, webVars, coreVars>>

\* createCheckRun settles; its failure is caught and the run goes on to fetchPRDiff
CreateCheckRunSettles ==
    /\ pc = "createCheckRun"
    /\ \E ok \in BOOLEAN :
          IF ok
          THEN /\ checkRunId' = 1
               /\ checkRunStatus' = "in_progress"
               /\ UNCHANGED failedSteps
          ELSE /\ failedSteps' = failedSteps \cup {"createCheckRun"}
               /\ UNCHANGED <<checkRunId, checkRunStatus>>
    /\ pc' = "fetchPRDiff"
    /\ UNCHANGED <<brokerState, attemptsMade, config, checkConclusion, parsedFiles, categorized,
                   pendingTools, toolResults, toolsRun, llmIssues, chunksLeft, output,
                   postedReviews, reviewResult, osvAdvisories,
                   analysesOk,
                   riskVars, queueVars, webVars, coreVars>>

\* fetchPRDiff rejects: the outer catch returns the failure
FetchPRDiffFails ==
    /\ pc = "fetchPRDiff"
    /\ failedSteps' = failedSteps \cup {"fetchPRDiff"}
    /\ reviewResult' = FailureResult("fetchPRDiff")
    /\ pc' = "returned"
    /\ UNCHANGED <<brokerState, attemptsMade, config, checkRunId, checkRunStatus, checkConclusion,
                   parsedFiles, categorized, pendingTools, toolResults, toolsRun, llmIssues,
                   chunksLeft, output, postedReviews, osvAdvisories,
                   analysesOk,
                   riskVars, queueVars, webVars, coreVars>>

\* fetchPRDiff resolves: the diff is parsed and categorized; with nothing to review the
\* run returns createEmptyResult, else the static tools are started
FetchPRDiffSettles ==
    /\ pc = "fetchPRDiff"
    /\ \E files \in ParsedDiffs :
          LET cat == categorizeFiles(files) IN
          /\ parsedFiles' = files
          /\ categorized' = cat
          /\ IF cat.sourceFiles = <<>> /\ cat.lockfiles = <<>>
             THEN /\ reviewResult' = createEmptyResult
                  /\ pc' = "returned"
                  /\ UNCHANGED pendingTools
             ELSE /\ pendingTools' =
                        toolsToRun([k \in 1..Len(cat.sourceFiles) |-> getFilePath(cat.sourceFiles[k])],
                                   config)
                  /\ pc' = "runStaticTools"
                  /\ UNCHANGED reviewResult
    /\ UNCHANGED <<brokerState, attemptsMade, config, checkRunId, checkRunStatus, checkConclusion,
                   toolResults, toolsRun, llmIssues, chunksLeft, output, postedReviews,
                   failedSteps, osvAdvisories,
                   analysesOk,
                   riskVars, queueVars, webVars, coreVars>>

\* one runner's promise resolves and its then-callback runs
ToolSettles ==
    /\ pc = "runStaticTools"
    /\ \E tool \in pendingTools :
       \E res \in ToolRuns(tool, [k \in 1..Len(categorized.sourceFiles) |->
                                      getFilePath(categorized.sourceFiles[k])]) :
          /\ pendingTools' = pendingTools \ {tool}
          /\ toolResults' = IF res.success THEN toolResults \o res.issues ELSE toolResults
          /\ toolsRun' = IF res.success /\ res.issues # <<>> THEN Append(toolsRun, tool) ELSE toolsRun
          /\ failedSteps' = IF res.success THEN failedSteps ELSE failedSteps \cup {tool}
    /\ UNCHANGED <<brokerState, attemptsMade, config, pc, checkRunId, checkRunStatus,
                   checkConclusion, parsedFiles, categorized, llmIssues, chunksLeft, output,
                   postedReviews, reviewResult, osvAdvisories,
                   analysesOk,
                   riskVars, queueVars, webVars, coreVars>>

\* Promise.all of the runners resolves; the lockfiles are scanned (every lookup's failure
\* is caught inside queryOsv) and retrieveRepoContext is called
StaticToolsDone ==
    /\ pc = "runStaticTools"
    /\ pendingTools = {}
    /\ \E vulnerable \in SUBSET {LodashAdvisory} :
          LET cveIssues == scanLockfiles(categorized.lockfiles, config, vulnerable) IN
          /\ osvAdvisories' = vulnerable
          /\ toolResults' = toolResults \o cveIssues
          /\ toolsRun' = IF cveIssues # <<>> THEN Append(toolsRun, "osv-scanner") ELSE toolsRun
    /\ pc' = "retrieveRepoContext"
    /\ UNCHANGED <<brokerState, attemptsMade, config, checkRunId, checkRunStatus, checkConclusion,
                   parsedFiles, categorized, pendingTools, llmIssues, chunksLeft, output,
                   postedReviews, reviewResult, failedSteps, analysesOk,
                   riskVars, queueVars, webVars, coreVars>>

\* steps 8 to 10 up to the await of postReview: aggregate, build the output, call postReview
startPost(found, tools) ==
    /\ output' = <<buildOutput(aggregateIssues(mergeToolResults(toolResults, found), config),
                               parsedFiles, tools, config.openaiModel)>>
    /\ pc' = "postReview"

\* retrieveRepoContext resolves (a file it could not fetch is null: fetchFileContent
\* catches); the provider is made, the diff chunked and the first chunk analysed
RepoContextSettles ==
    /\ pc = "retrieveRepoContext"
    /\ \E fetched \in BOOLEAN :
          failedSteps' = IF fetched THEN failedSteps ELSE failedSteps \cup {"retrieveRepoContext"}
    /\ LET chunks == chunkDiff(parsedFiles) IN
       /\ chunksLeft' = chunks
       /\ IF chunks = <<>>
          THEN startPost(<<>>, toolsRun)
          ELSE pc' = "analyze" /\ UNCHANGED output
    /\ UNCHANGED <<brokerState, attemptsMade, config, checkRunId, checkRunStatus, checkConclusion,
                   parsedFiles, categorized, pendingTools, toolResults, toolsRun, llmIssues,
                   postedReviews, reviewResult, osvAdvisories,
                   analysesOk,
                   riskVars, queueVars, webVars, coreVars>>

\* llmProvider.analyze settles for the chunk awaited; a rejection is caught and logged.
\* After the last chunk the review is built and postReview called.
AnalyzeSettles ==
    /\ pc = "analyze"
    /\ \E res \in AnalyzeOutcomes(Head(chunksLeft)) :
          LET found == IF res.ok THEN llmIssues \o res.issues ELSE llmIssues
              tools == IF res.ok THEN Append(toolsRun, "llm-openai") ELSE toolsRun
          IN  /\ llmIssues' = found
              /\ toolsRun' = tools
              /\ failedSteps' = IF res.ok THEN failedSteps ELSE failedSteps \cup {"analyze"}
              /\ analysesOk' = IF res.ok THEN analysesOk + 1 ELSE analysesOk
              /\ chunksLeft' = Tail(chunksLeft)
              /\ IF Tail(chunksLeft) = <<>>
                 THEN startPost(found, tools)
                 ELSE UNCHANGED <<pc, output>>
    /\ UNCHANGED <<brokerState, attemptsMade, config, checkRunId, checkRunStatus, checkConclusion,
                   parsedFiles, categorized, pendingTools, toolResults, postedReviews, reviewResult,
                   osvAdvisories,
                   riskVars, queueVars, webVars, coreVars>>

\* postReview rejects: nothing was created, the outer catch returns the failure
PostReviewFails ==
    /\ pc = "postReview"
    /\ failedSteps' = failedSteps \cup {"postReview"}
    /\ reviewResult' = FailureResult("postReview")
    /\ pc' = "returned"
    /\ UNCHANGED <<brokerState, attemptsMade, config, checkRunId, checkRunStatus, checkConclusion,
                   parsedFiles, categorized, pendingTools, toolResults, toolsRun, llmIssues,
                   chunksLeft, output, postedReviews, osvAdvisories,
                   analysesOk,
                   riskVars, queueVars, webVars, coreVars>>

\* postReview resolves: the review is on the pull request; with a check run the run
\* awaits updateCheckRun, without one it returns success
PostReviewSettles ==
    /\ pc = "postReview"
    /\ postedReviews' = Append(postedReviews, [event |-> reviewEvent(output[1]), review |-> output[1]])
    /\ IF checkRunId # 0
       THEN pc' = "updateCheckRun" /\ UNCHANGED reviewResult
       ELSE pc' = "returned" /\ reviewResult' = SuccessResult(output[1])
    /\ UNCHANGED <<brokerState, attemptsMade, config, checkRunId, checkRunStatus, checkConclusion,
                   parsedFiles, categorized, pendingTools, toolResults, toolsRun, llmIssues,
                   chunksLeft, output, failedSteps, osvAdvisories,
                   analysesOk,
                   riskVars, queueVars, webVars, coreVars>>

\* updateCheckRun settles: resolved, the run returns success; rejected, the rejection
\* reaches the outer catch
UpdateCheckRunSettles ==
    /\ pc = "updateCheckRun"
    /\ \E ok \in BOOLEAN :
          IF ok
          THEN /\ checkRunStatus' = "completed"
               /\ checkConclusion' = checkRunConclusion(output[1], config)
               /\ reviewResult' = SuccessResult(output[1])
               /\ UNCHANGED failedSteps
          ELSE /\ failedSteps' = failedSteps \cup {"updateCheckRun"}
               /\ reviewResult' = FailureResult("updateCheckRun")
               /\ UNCHANGED <<checkRunStatus, checkConclusion>>
    /\ pc' = "returned"
    /\ UNCHANGED <<brokerState, attemptsMade, config, checkRunId, parsedFiles, categorized,
                   pendingTools, toolResults, toolsRun, llmIssues, chunksLeft, output,
                   postedReviews, osvAdvisories,
                   analysesOk,
                   riskVars, queueVars, webVars, coreVars>>

\* processJob after runReview returned: it logs on either branch and resolves
processJob(res) == IF res.success THEN "resolved" ELSE "resolved"

\* The processor's promise settles and the broker moves the job: resolved, it is
\* completed; rejected, it waits for the next attempt until the attempts are used up.
ProcessJobSettles ==
    /\ brokerState = "active"
    /\ pc = "returned"
    /\ IF processJob(reviewResult) = "resolved"
       THEN /\ brokerState' = "completed"
            /\ UNCHANGED attemptsMade
       ELSE /\ attemptsMade' = attemptsMade + 1
            /\ brokerState' = IF attemptsMade + 1 < JobAttempts THEN "waiting" ELSE "failed"
    /\ pc' = "idle"
    /\ UNCHANGED <<config, checkRunId, checkRunStatus, checkConclusion, parsedFiles, categorized,
                   pendingTools, toolResults, toolsRun, llmIssues, chunksLeft, output,
                   postedReviews, reviewResult, failedSteps, osvAdvisories,
                   analysesOk,
                   riskVars, queueVars, webVars, coreVars>>

(***************************************************************************)
(* Installation tokens (webhook-server auth/github-app)                    *)
(***************************************************************************)
\* Time is counted in steps of 30 seconds.
MaxClock == 6
MaxTokens == 3
Installations == {1, 2}

\* the 60000 ms of `new Date(Date.now() + 60000)`, in steps
cacheMargin == 2
\* the steps after which a token the forge issues expires
TokenLifetimes == {3, 4}

NoToken == [token |-> 0, expiresAt |-> 0]
NoTokenCall == [kind |-> "none", installationId |-> 0, at |-> 0,
                cached |-> NoToken, result |-> NoToken]

\* cached !== undefined && cached.expiresAt > new Date(Date.now() + 60000)
cacheValid(cached, t) == cached # NoToken /\ cached.expiresAt > t + cacheMargin

InitToken ==
    /\ clock = 0
    /\ tokenCache = [i \in Installations |-> NoToken]
    /\ fetching = [i \in Installations |-> 0]
    /\ tokensIssued = 0
    /\ tokenCall = NoTokenCall

\* Date.now() moves on
ClockTick ==
    /\ clock < MaxClock
    /\ clock' = clock + 1
    /\ UNCHANGED <<tokenCache, fetching, tokensIssued, tokenCall>>
    /\ UNCHANGED <<riskVars, queueVars, webVars, reviewVars, aggVars, chunkVars, parseVars, toolVars, llmVars>>

\* getInstallationToken(installationId, config) up to its return of the cached token
\* or to its await of fetch
GetInstallationToken ==
    \E id \in Installations :
       LET cached == tokenCache[id]
       IN  /\ IF cacheValid(cached, clock)
              THEN /\ tokenCall' = [kind |-> "cached", installationId |-> id, at |-> clock,
                                    cached |-> cached, result |-> cached]
                   /\ UNCHANGED fetching
              ELSE /\ tokensIssued + fetching[1] + fetching[2] < MaxTokens
                   /\ fetching' = [fetching EXCEPT ![id] = @ + 1]
                   /\ tokenCall' = [kind |-> "fetching", installationId |-> id, at |-> clock,
                                    cached |-> cached, result |-> NoToken]
           /\ UNCHANGED <<clock, tokenCache, tokensIssued>>
           /\ UNCHANGED <<riskVars, queueVars, webVars, reviewVars, aggVars, chunkVars, parseVars, toolVars, llmVars>>

\* the fetch settles with a token: the call caches it and returns it
FetchTokenSettles ==
    \E id \in {i \in Installations : fetching[i] > 0}, life \in TokenLifetimes :
       LET token == [token |-> tokensIssued + 1, expiresAt |-> clock + life]
       IN  /\ fetching' = [fetching EXCEPT ![id] = @ - 1]
           /\ tokensIssued' = tokensIssued + 1
           /\ tokenCache' = [tokenCache EXCEPT ![id] = token]
           /\ tokenCall' = [kind |-> "fetched", installationId |-> id, at |-> clock,
                            cached |-> tokenCache[id], result |-> token]
           /\ UNCHANGED clock
           /\ UNCHANGED <<riskVars, queueVars, webVars, reviewVars, aggVars, chunkVars, parseVars, toolVars, llmVars>>

\* the response is not ok: the call throws and the cache is left as it was
FetchTokenFails ==
    \E id \in {i \in Installations : fetching[i] > 0} :
       /\ fetching' = [fetching EXCEPT ![id] = @ - 1]
       /\ tokenCall' = [kind |-> "threw", installationId |-> id, at |-> clock,
                        cached |-> tokenCache[id], result |-> NoToken]
       /\ UNCHANGED <<clock, tokenCache, tokensIssued>>
       /\ UNCHANGED <<riskVars, queueVars, webVars, reviewVars, aggVars, chunkVars, parseVars, toolVars, llmVars>>

\* clearTokenCache(installationId)
ClearTokenCache ==
    \E id \in Installations :
       /\ tokenCache[id] # NoToken
       /\ tokenCache' = [tokenCache EXCEPT ![id] = NoToken]
       /\ tokenCall' = NoTokenCall
       /\ UNCHANGED <<clock, fetching, tokensIssued>>
       /\ UNCHANGED <<riskVars, queueVars, webVars, reviewVars, aggVars, chunkVars, parseVars, toolVars, llmVars>>

(***************************************************************************)
(* Static-tool runners (reviewer-worker tools)                             *)
(***************************************************************************)
ToolNames == {"eslint", "semgrep", "ruff", "bandit", "gosec", "staticcheck", "go-vet"}

\* the machine a runner runs on: is the tool's binary there, does the invocation run
\* into the timeout, does the tool report anything, has the workdir a config file of the
\* tool, are there files of the tool's language
ToolEnvs ==
    [binary : {"installed", "absent"}, timesOut : BOOLEAN, reports : BOOLEAN,
     hasConfig : BOOLEAN, hasTargets : BOOLEAN]

\* a staticcheck code, with its characters
Code(text, chars) == [text |-> text, chars |-> chars]
StaticcheckCodes ==
    {Code("SA4006", <<"S", "A", "4", "0", "0", "6">>),
     Code("ST1000", <<"S", "T", "1", "0", "0", "0">>),
     Code("S1000", <<"S", "1", "0", "0", "0">>),
     Code("U1000", <<"U", "1", "0", "0", "0">>)}

\* code.startsWith(prefix)
startsWith(chars, prefix) ==
    Len(prefix) <= Len(chars) /\ \A k \in DOMAIN prefix : chars[k] = prefix[k]

\* categorizeStaticcheck(code): the tests in the order of the code
categorizeStaticcheck(code) ==
    IF startsWith(code.chars, <<"S">>) THEN "correctness"
    ELSE IF startsWith(code.chars, <<"S", "A">>) THEN "security"
    ELSE IF startsWith(code.chars, <<"S", "T">>) THEN "style"
    ELSE "maintainability"

\* isCommandAvailable(command)
isCommandAvailable(env) == env.binary = "installed"

\* what runCommand can return: it never throws.  Without the binary, or killed at the
\* timeout, the process wrote nothing and its exit code is the library's to choose:
\* none (read as 0) when the call resolves, 1 when it rejects.
runCommand(env) ==
    IF env.binary = "absent" \/ env.timesOut
    THEN {[stdout |-> "", exitCode |-> c] : c \in {0, 1}}
    ELSE IF env.reports THEN {[stdout |-> "findings", exitCode |-> 1]}
    ELSE {[stdout |-> "none", exitCode |-> 0]}

ToolResult(tool, success, found) == [tool |-> tool, success |-> success, issues |-> found]

\* the issues a runner parses out of the output: JSON.parse of no text throws inside
\* the runner's inner try and leaves the empty list
parsedFindings(tool, out, code) ==
    IF out.stdout # "findings" THEN <<>>
    ELSE IF tool = "staticcheck"
    THEN <<Issue(categorizeStaticcheck(code), "medium", 90, "main.go", 4, code.text, "staticcheck")>>
    ELSE IF tool = "go-vet"
    THEN <<Issue("correctness", "medium", 90, "main.go", 4, "go-vet", "go-vet")>>
    ELSE <<toolFinding(tool, "src/app.ts")>>

\* runner.run(files, workdir, config), of the runner of this name, given what runCommand
\* returned
runTool(tool, env, out, code) ==
    CASE tool = "eslint" ->
           IF ~env.hasConfig \/ ~env.hasTargets THEN ToolResult(tool, TRUE, <<>>)
           ELSE ToolResult(tool, TRUE, parsedFindings(tool, out, code))
      [] tool = "semgrep" ->
           IF ~isCommandAvailable(env) THEN ToolResult(tool, FALSE, <<>>)
           ELSE LET found == parsedFindings(tool, out, code)
                IN  ToolResult(tool, out.exitCode = 0 \/ found # <<>>, found)
      [] tool = "ruff" ->
           IF ~env.hasConfig \/ ~env.hasTargets THEN ToolResult(tool, TRUE, <<>>)
           ELSE ToolResult(tool, TRUE, parsedFindings(tool, out, code))
      [] tool = "bandit" ->
           IF ~env.hasTargets THEN ToolResult(tool, TRUE, <<>>)
           ELSE ToolResult(tool, TRUE, parsedFindings(tool, out, code))
      [] OTHER -> ToolResult(tool, TRUE, parsedFindings(tool, out, code))

NoToolRun == [tool |-> "none"]

InitTools == toolRun = NoToolRun

\* one runner runs on one machine
RunTool ==
    /\ \E tool \in ToolNames, env \in ToolEnvs, code \in StaticcheckCodes :
       \E out \in runCommand(env) :
          toolRun' = [tool |-> tool, env |-> env, code |-> code, out |-> out,
                      result |-> runTool(tool, env, out, code)]
    /\ UNCHANGED <<riskVars, queueVars, webVars, reviewVars, aggVars, chunkVars, parseVars, tokenVars, llmVars>>

(***************************************************************************)
(* LLM providers: analyze and parseResponse                                *)
(***************************************************************************)
Providers == {"openai", "anthropic", "vllm"}

\* the source_tool each provider's parseResponse sets
providerSourceTool(provider) ==
    CASE provider = "openai" -> "llm"
      [] provider = "anthropic" -> "llm-claude"
      [] provider = "vllm" -> "llm-vllm"

\* the chunks a provider is called with
LLMChunks ==
    UNION {Range(chunkDiff(d)) : d \in {<<AppTs>>, <<ServerTs, ClientTsx>>, <<UtilPy, MainGo>>,
                                        <<AppTs, PackageLock, LogoPng>>}}

\* chunk.filePaths
filePaths(chunk) == [k \in 1..Len(chunk.files) |-> getFilePath(chunk.files[k])]

\* what a model can answer for a chunk: the answers of LLMResponses, an issue on the
\* file's name without its directories, one on the path below another directory, and
\* an answer naming a file of the chunk and a file outside it
ProviderResponses(chunk) ==
    LET path == getFilePath(chunk.files[1])
        item == Issue("correctness", "high", 70, path, 9, "null-deref", "llm")
        foreign == [item EXCEPT !.file_path = [dirs |-> <<"src">>, stem |-> "other", ext |-> "ts"]]
    IN  LLMResponses(chunk)
        \cup {<<[item EXCEPT !.file_path.dirs = <<>>]>>,
              <<[item EXCEPT !.file_path.dirs = <<"b">> \o path.dirs]>>,
              <<foreign, item>>,
              <<item, foreign, [item EXCEPT !.line_start = 20, !.line_end = 22]>>}

\* a parseResponse that keeps every item the schema accepts
parseResponseAnyPath(provider, items, validPaths) ==
    LET kept == SelectSeq(items, IssueSchemaAccepts)
    IN  [k \in 1..Len(kept) |-> [kept[k] EXCEPT !.source_tool = providerSourceTool(provider)]]

\* parseResponse(content, validPaths) of the provider of this name
providerParseResponse(provider, items, validPaths) ==
    LET kept == parseResponse(items, validPaths)
    IN  [k \in 1..Len(kept) |-> [kept[k] EXCEPT !.source_tool = providerSourceTool(provider)]]

NoLlmCall == [provider |-> "none", filePaths |-> <<>>, items |-> <<>>, issues |-> <<>>]

InitLLM == llmCall = NoLlmCall

\* analyze(input, config) of a provider resolves
Analyze ==
    /\ \E provider \in Providers, chunk \in LLMChunks :
       \E items \in ProviderResponses(chunk) :
          llmCall' = [provider |-> provider, filePaths |-> filePaths(chunk), items |-> items,
                      issues |-> providerParseResponse(provider, items, filePaths(chunk))]
    /\ UNCHANGED <<riskVars, queueVars, webVars, reviewVars, aggVars, chunkVars, parseVars,
                   tokenVars, toolVars>>

(***************************************************************************)
(* Specifications                                                          *)
(***************************************************************************)
Init == InitRisk /\ InitQueue /\ InitWeb /\ InitReview /\ InitCore /\ InitChunk /\ InitParse /\ InitToken /\ InitTools /\ InitLLM

NextRisk == ScoreIssues \/ ScoreValidIssue \/ ScoreRepeatedIssue

SpecRisk == Init /\ [][NextRisk]_vars

NextQueue == Enqueue \/ JobSettles \/ Close

SpecQueue == Init /\ [][NextQueue]_vars

NextWebhook == PostWebhook \/ RequestDone \/ JobSettles

SpecWebhook == Init /\ [][NextWebhook]_vars

NextReview == \/ BrokerDeliver \/ CreateCheckRunSettles \/ FetchPRDiffFails \/ FetchPRDiffSettles
              \/ ToolSettles \/ StaticToolsDone \/ RepoContextSettles \/ AnalyzeSettles
              \/ PostReviewFails \/ PostReviewSettles \/ UpdateCheckRunSettles
              \/ ProcessJobSettles
SpecReview == Init /\ [][NextReview]_vars

NextAggregate == AggregateIssues
SpecAggregate == Init /\ [][NextAggregate]_vars

NextChunk == ChunkDiff
SpecChunk == Init /\ [][NextChunk]_vars

NextParse == ParseDiff
SpecParse == Init /\ [][NextParse]_vars

NextToken == ClockTick \/ GetInstallationToken \/ FetchTokenSettles \/ FetchTokenFails
             \/ ClearTokenCache
SpecToken == Init /\ [][NextToken]_vars

NextTools == RunTool
SpecTools == Init /\ [][NextTools]_vars

NextLLM == Analyze
SpecLLM == Init /\ [][NextLLM]_vars

(***************************************************************************)
(* Claims                                                                  *)
(***************************************************************************)
Answered == resp.kind # "none"
ValidlySigned == req.signature = hmacHeader(WebhookSecret, req.rawBody)
ParsedBody == rawBodyMiddleware(req.rawBody).body

\* C1: a POST /webhook whose X-Hub-Signature-256 header is missing, has another length
\* than the expected value, or differs from 'sha256=' + HMAC-SHA256(secret, rawBody),
\* is answered 401 and enqueues no job, whatever its body and event header are.
C1_BadSignatureRejected ==
    (Answered /\ (\/ ~req.signature.present
                  \/ req.signature.len # SignatureLength
                  \/ req.signature # hmacHeader(WebhookSecret, req.rawBody)))
        => (resp.status = 401 /\ reqEnqueued = {})

\* a request with a header of the right length and the wrong digest has been answered,
\* its body being one that would have been accepted
C1_Witness ==
    /\ Answered
    /\ req.signature.present
    /\ req.signature.len = SignatureLength
    /\ ~ValidlySigned
    /\ postHandler(req, ParsedBody).status = 202
    /\ resp.status = 401

\* C2: for a validly signed POST /webhook, a job is enqueued and the answer is 202
\* exactly when the event is pull_request, the payload shape is valid, the action is
\* supported, the PR is no draft and installation.id is present; with only the
\* installation id missing the answer is 400 and nothing is enqueued; and a request
\* enqueues at most one job.
C2_AcceptedIff ==
    (Answered /\ ValidlySigned) =>
        LET body == ParsedBody
            upToDraft == /\ req.event = "pull_request"
                         /\ isValidPRPayload(body)
                         /\ body.action \in SUPPORTED_ACTIONS
                         /\ ~body.draft
        IN  /\ (resp.status = 202 /\ reqEnqueued # {}) <=> (upToDraft /\ body.hasInstallationId)
            /\ (upToDraft /\ ~body.hasInstallationId) => (resp.status = 400 /\ reqEnqueued = {})
            /\ Cardinality(reqEnqueued) <= 1

Returned == pc = "returned"
FetchedDiff == Returned /\ "fetchPRDiff" \notin failedSteps
NothingToReview == categorized.sourceFiles = <<>> /\ categorized.lockfiles = <<>>

\* C4: a run of runReview posts the review at most once; a run that returned success
\* has posted exactly one review; a run that failed before a review was created (the
\* diff could not be fetched, or postReview was rejected) has posted none.
C4_PostedExactlyOnce ==
    /\ Len(postedReviews) <= 1
    /\ (Returned /\ reviewResult.success) => Len(postedReviews) = 1
    /\ (Returned /\ failedSteps \cap {"fetchPRDiff", "postReview"} # {}) => postedReviews = <<>>

\* C5: when categorization leaves no source file and no lockfile, the run has posted a
\* zero-issue review (score 0, level low, summary "No reviewable files in this PR.")
\* when it returns, and it returns success.
C5_NothingToReviewPosted ==
    (FetchedDiff /\ NothingToReview)
        => /\ reviewResult.success
           /\ Len(postedReviews) = 1
           /\ postedReviews[1].review.risk_score = 0
           /\ postedReviews[1].review.risk_level = "low"
           /\ postedReviews[1].review.issues_found = 0
           /\ postedReviews[1].review.summary_markdown = "No reviewable files in this PR."

\* C6: a run returns success=false only when fetching the diff or posting the review
\* failed; a run with something to review in which both succeeded has posted a review
\* and returned success, whatever else failed.
C6_OnlyFetchAndPostAreFatal ==
    /\ (Returned /\ ~reviewResult.success)
          => failedSteps \cap {"fetchPRDiff", "postReview"} # {}
    /\ (FetchedDiff /\ ~NothingToReview /\ "postReview" \notin failedSteps)
          => reviewResult.success /\ Len(postedReviews) = 1

\* C7: once the job handler has settled for a review that returned success=false, the
\* broker holds the job as failed: waiting for its next attempt, or failed for good
\* after 3 attempts; it is never completed.
C7_FatalErrorFailsJob ==
    (pc = "idle" /\ reviewResult.kind = "result" /\ ~reviewResult.success)
        => /\ brokerState \in {"waiting", "failed"}
           /\ attemptsMade \in 1..JobAttempts
           /\ (brokerState = "failed" <=> attemptsMade = JobAttempts)

\* C8: the memory queue hands jobs to the processor in the order they were enqueued,
\* each at most once (job ids grow with the enqueue order); a job whose processing threw
\* is neither queued nor handed over again; and while a job is queued some loop is
\* awaiting a job, so a failed job never leaves the jobs behind it unprocessed.
C8_MemoryQueueFifoOnce ==
    /\ \A a, b \in 1..Len(handed) : a < b => handed[a] < handed[b]
    /\ \A j \in failedJobs : j \notin Range(jobs) /\ j \notin inFlight
    /\ \A j \in failedJobs \cup completedJobs : j \in Range(handed)
    /\ jobs # <<>> => inFlight # {}

\* a job has failed, a job enqueued after it has then been handed over and completed
C8_Witness ==
    \E j \in failedJobs : \E k \in completedJobs : k > j /\ Len(handed) >= 3

AllAre(xs, issue) == \A k \in 1..Len(xs) : xs[k] = issue

\* C9: for ten issues that are all security / critical / confidence 1.0,
\* calculateRiskScore returns score 100 and level critical, and the gate fails.
C9_TenCriticalSecurity ==
    (Len(issues) = 10 /\ AllAre(issues, createTestIssue("security", "critical", 100)))
        => /\ riskResult.score = 100
           /\ riskResult.level = "critical"
           /\ shouldFailCheck(riskResult, RISK_THRESHOLDS.critical, TRUE)

\* C10: for a single low-severity style issue of confidence 0.5 (likewise 0.8),
\* calculateRiskScore returns a score above 0 and below 30 with level low, and the gate
\* passes.
C10_SingleLowStyle ==
    (Len(issues) = 1 /\ issues[1] \in {createTestIssue("style", "low", 50),
                                        createTestIssue("style", "low", 80)})
        => /\ riskResult.score > 0
           /\ riskResult.score < 30
           /\ riskResult.level = "low"
           /\ ~shouldFailCheck(riskResult, RISK_THRESHOLDS.critical, TRUE)

\* C11: adding a valid issue to a list never lowers the score calculateRiskScore
\* returns for it, and every score is an integer from 0 to 100.
C11_ScoreMonotonic ==
    /\ [](riskResult.score \in 0..100)
    /\ [][issues' = Append(issues, issues'[Len(issues')])
            => riskResult'.score >= riskResult.score]_vars

\* a list already scored 100 has been grown by one more issue
C11_Witness ==
    /\ Len(issues) > 20
    /\ riskResult = calculateRiskScore(issues)
    /\ calculateRiskScore(SubSeq(issues, 1, Len(issues) - 1)).score = 100
    /\ riskResult.score = 100

\* the AggregationResult of the run whose output has been built
Aggregated == aggregateIssues(mergeToolResults(toolResults, llmIssues), config)

\* the gate as specified, for the run's score and issues
GateFails ==
    \/ Aggregated.riskScore.score >= config.riskThreshold
    \/ \E k \in 1..Len(Aggregated.allIssues) :
          /\ Aggregated.allIssues[k].category = "security"
          /\ Aggregated.allIssues[k].severity = "critical"

\* C12: for a review whose output has been built, shouldFailCheck (failOnCriticalSecurity
\* on) is true exactly when the score is at or above the threshold or a scored security
\* issue is critical, and the conclusion written to the check run is failure in exactly
\* those cases.
C12_GateOutcome ==
    output # <<>>
        => /\ shouldFailCheck(Aggregated.riskScore, config.riskThreshold, TRUE) <=> GateFails
           /\ checkRunStatus = "completed" => (checkConclusion = "failure" <=> GateFails)

\* C13: every issue of a built ReviewOutput, and every issue the aggregation kept,
\* satisfies the Issue bounds (subtype 1-50 characters, message 1-900, evidence <= 500,
\* a file path, positive line numbers, confidence in [0,1]) and has lineEnd >= lineStart.
C13_IssuesWithinBounds ==
    output # <<>>
        => /\ \A k \in 1..Len(Aggregated.allIssues) :
                 /\ IssueSchemaAccepts(Aggregated.allIssues[k])
                 /\ validateLineRange(Aggregated.allIssues[k].line_start,
                                      Aggregated.allIssues[k].line_end)
           /\ \A k \in 1..Len(output[1].inline_comments) :
                 /\ IssueSchemaAccepts(output[1].inline_comments[k])
                 /\ validateLineRange(output[1].inline_comments[k].line_start,
                                      output[1].inline_comments[k].line_end)

\* C14: when the diff changes the manifest or lockfile declaring lodash@4.17.11 and the
\* vulnerability database holds a high-severity advisory for it, the aggregated issues
\* of the run hold a dependency/cve issue of severity high or critical and confidence
\* 0.95, and the risk level is at least medium.
C14_KnownAdvisoryReported ==
    (/\ output # <<>>
     /\ LodashAdvisory \in osvAdvisories
     /\ \E k \in 1..Len(parsedFiles) : parsedFiles[k] \in {PackageJson, PackageLock})
        => /\ \E k \in 1..Len(Aggregated.allIssues) :
                 /\ Aggregated.allIssues[k].category = "dependency"
                 /\ Aggregated.allIssues[k].subtype = "cve"
                 /\ Aggregated.allIssues[k].severity \in {"high", "critical"}
                 /\ Aggregated.allIssues[k].confidence = 95
           /\ output[1].risk_level \in {"medium", "high", "critical"}

KeysOf(xs) == {createDedupeKey(xs[k]) : k \in 1..Len(xs)}
SeverityRank(issue) == SEVERITY_WEIGHTS[issue.severity]

\* C15: deduplicateIssues returns exactly one issue for each key of its input (file
\* path, line range, category, first 20 characters of the subtype); it is an issue of
\* the input with that key, of the highest severity among them and, among those of
\* the highest severity, of the highest confidence.
C15_DedupeKeepsBest ==
    /\ KeysOf(dedupResult) = KeysOf(aggInput)
    /\ \A a, b \in 1..Len(dedupResult) :
          createDedupeKey(dedupResult[a]) = createDedupeKey(dedupResult[b]) => a = b
    /\ \A a \in 1..Len(dedupResult) :
          /\ \E k \in 1..Len(aggInput) : aggInput[k] = dedupResult[a]
          /\ \A k \in 1..Len(aggInput) :
                createDedupeKey(aggInput[k]) = createDedupeKey(dedupResult[a])
                   => \/ SeverityRank(aggInput[k]) < SeverityRank(dedupResult[a])
                      \/ /\ SeverityRank(aggInput[k]) = SeverityRank(dedupResult[a])
                         /\ aggInput[k].confidence <= dedupResult[a].confidence

\* three issues of one key went in, the critical one of lowest confidence came last
\* and is the one kept; two rule ids equal in their first 20 characters collided
C15_Witness ==
    /\ Len(aggInput) = 4
    /\ aggInput[1].severity = "high" /\ aggInput[1].confidence = 90
    /\ aggInput[2].severity = "critical" /\ aggInput[2].confidence = 60
    /\ aggInput[3].subtype = LongRuleId
    /\ aggInput[4].subtype = OtherRuleId
    /\ Len(dedupResult) = 2
    /\ dedupResult[1].severity = "critical"
    /\ dedupResult[2].subtype = LongRuleId

\* C16: aggregateIssues scores all deduplicated issues whose confidence reaches the
\* threshold, so the score is the same under every cap of inline comments;
\* inlineComments holds min(cap, number of those issues) of them, and no issue left out
\* has a higher priority (getIssueScore) than one selected.
C16_ScoreOverAllFiltered ==
    LET filtered == SelectSeq(dedupResult, LAMBDA i : i.confidence >= aggConfig.confidenceThreshold)
        selected == aggResult.inlineComments
    IN  /\ aggResult.allIssues = filtered
        /\ aggResult.riskScore = calculateRiskScore(filtered)
        /\ \A cap \in 1..MaxInlineCap :
              aggregateIssues(aggInput, [aggConfig EXCEPT !.maxInlineComments = cap]).riskScore
                 = aggResult.riskScore
        /\ Len(selected) = Min(aggConfig.maxInlineComments, Len(filtered))
        /\ Range(selected) \subseteq Range(filtered)
        /\ \A a, b \in 1..Len(selected) : selected[a] = selected[b] => a = b
        /\ \A u \in Range(filtered) \ Range(selected) :
              \A k \in 1..Len(selected) : getIssueScore(u) <= getIssueScore(selected[k])

\* under a cap of 1, three issues of different priority passed the filter and one, below
\* the threshold, did not; the critical one is selected and all three are scored
C16_Witness ==
    /\ aggConfig.maxInlineComments = 1
    /\ Len(aggInput) = 4
    /\ Len(aggResult.allIssues) = 3
    /\ aggResult.inlineComments[1].severity = "critical"
    /\ aggResult.allIssues[1].severity # "critical"
    /\ aggResult.riskScore.score > calculateRiskScore(aggResult.inlineComments).score

RECURSIVE Flatten(_)
\* the concatenation of chunk.files over the chunks, in chunk order
Flatten(cs) == IF cs = <<>> THEN <<>> ELSE Head(cs).files \o Flatten(Tail(cs))

\* C17: under every config with maxFilesPerChunk >= 1 the files of the chunks chunkDiff
\* returns, concatenated in chunk order, are the files of the diff (each file in exactly
\* one chunk, in input order), no chunk is empty and the chunks are indexed from 0.
C17_ChunksPartitionFiles ==
    chunkConfig.maxFilesPerChunk >= 1
        => /\ Flatten(chunkResult) = chunkFiles
           /\ \A k \in 1..Len(chunkResult) : chunkResult[k].files # <<>> /\ chunkResult[k].index = k - 1

\* four files came out as three chunks: the two of 2000 tokens together, the file over
\* the budget on its own, the small one last
C17_Witness ==
    /\ chunkConfig = DEFAULT_CHUNK_CONFIG
    /\ Len(chunkFiles) = 4
    /\ Len(chunkResult) = 3
    /\ Len(chunkResult[1].files) = 2
    /\ chunkResult[2].files = <<chunkFiles[3]>>
    /\ estimateTokens(chunkFiles[3].formattedChars) > chunkConfig.maxTokens

\* C18: every chunk chunkDiff returns has estimatedTokens <= maxTokens, unless it holds
\* exactly one file whose formatted content alone is over maxTokens.
C18_ChunkWithinBudget ==
    \A k \in 1..Len(chunkResult) :
        \/ chunkResult[k].estimatedTokens <= chunkConfig.maxTokens
        \/ /\ Len(chunkResult[k].files) = 1
           /\ estimateTokens(chunkResult[k].files[1].formattedChars) > chunkConfig.maxTokens


RECURSIVE fromFirstHeader(_)
fromFirstHeader(lines) ==
    IF lines = <<>> \/ Head(lines).kind = "diff" THEN lines ELSE fromFirstHeader(Tail(lines))

\* the hunks of the diff text, each as its header line and the content lines after it
RECURSIVE hunksOfText(_, _)
hunksOfText(lines, found) ==
    IF lines = <<>> THEN found
    ELSE LET l == Head(lines)
         IN  IF l.kind = "hunk"
             THEN hunksOfText(Tail(lines), Append(found, [header |-> l, body |-> <<>>]))
             ELSE IF l.kind = "content" /\ found # <<>>
             THEN hunksOfText(Tail(lines),
                              [found EXCEPT ![Len(found)].body = Append(@, l)])
             ELSE hunksOfText(Tail(lines), found)

\* the hunks parseDiff returned, of all files in order
RECURSIVE hunksParsed(_)
hunksParsed(files) ==
    IF files = <<>> THEN <<>> ELSE Head(files).hunks \o hunksParsed(Tail(files))

\* the positions in a hunk's body of the lines with this sign whose text the parser
\* recorded, in order
RECURSIVE recordedAt(_, _, _)
recordedAt(body, sign, from) ==
    IF from > Len(body) THEN <<>>
    ELSE IF body[from].sign = sign
            /\ (IF sign = "+" THEN isAddedLine(body[from]) ELSE isRemovedLine(body[from]))
    THEN <<from>> \o recordedAt(body, sign, from + 1)
    ELSE recordedAt(body, sign, from + 1)

\* the lines of the body before position at that count on the side of this sign
countedBefore(body, sign, at) ==
    Cardinality({i \in 1..(at - 1) : body[i].sign \in {sign, " "}})

\* the numbers of a hunk's recorded lines increase strictly, lie within the hunk's range
\* and each is the start plus the context and same-sign lines before it in the hunk
numberedRight(recorded, body, sign, start, count) ==
    LET at == recordedAt(body, sign, 1)
    IN  /\ Len(at) = Len(recorded)
        /\ \A j \in DOMAIN recorded :
              /\ recorded[j].lineNumber >= start
              /\ recorded[j].lineNumber < start + count
              /\ j > 1 => recorded[j].lineNumber > recorded[j - 1].lineNumber
              /\ recorded[j].lineNumber = start + countedBefore(body, sign, at[j])

\* C20: in every hunk parseDiff returns, the numbers of addedLines increase strictly,
\* lie in [newStart, newStart + newCount), and each is newStart plus the number of
\* context and added lines before it in the hunk; the same for removedLines with
\* oldStart and oldCount.
C20_LineNumbers ==
    LET text == hunksOfText(fromFirstHeader(diffLines), <<>>)
        parsed == hunksParsed(parsedDiff.files)
    IN  diffGen.phase \in {"hunkDone", "hunkClosed", "between", "end"} =>
           /\ Len(parsed) = Len(text)
           /\ \A k \in DOMAIN parsed :
                 /\ numberedRight(parsed[k].addedLines, text[k].body, "+",
                                  parsed[k].newStart, parsed[k].newCount)
                 /\ numberedRight(parsed[k].removedLines, text[k].body, "-",
                                  parsed[k].oldStart, parsed[k].oldCount)

\* the diff text has a hunk header before any 'diff --git' line
hunkBeforeFileHeader(lines) ==
    \E k \in DOMAIN lines :
       /\ lines[k].kind = "hunk"
       /\ \A j \in 1..(k - 1) : lines[j].kind # "diff"

\* parseDiff ended with an error of this name instead of returning a ParsedDiff
failedWith(outcome, name) == "error" \in DOMAIN outcome /\ outcome.error = name

\* C21: parseDiff fails with MalformedDiff when a hunk header comes before any file
\* header, and returns a ParsedDiff for every other text.
C21_MalformedDiffOnOrphanHunk ==
    hunkBeforeFileHeader(diffLines) <=> failedWith(parsedDiff, "MalformedDiff")

\* C22: getInstallationToken returns the cached token of an installation, without
\* requesting a new one, exactly when the cache holds an entry for it that expires at
\* now + 60 s or later.
C22_CachedExactlyWhenFresh ==
    tokenCall.kind \in {"cached", "fetching"} =>
       (tokenCall.kind = "cached"
          <=> tokenCall.cached # NoToken /\ tokenCall.cached.expiresAt >= tokenCall.at + cacheMargin)

\* C23: whichever runner it is, when it invokes its tool (the workdir has the tool's
\* config and files of its language) and the binary is absent or the invocation times
\* out, the ToolResult has success = false and no issues.
C23_AbsentOrTimedOutFails ==
    /\ toolRun # NoToolRun
    /\ toolRun.env.hasConfig /\ toolRun.env.hasTargets
    /\ toolRun.env.binary = "absent" \/ toolRun.env.timesOut
    => ~toolRun.result.success /\ toolRun.result.issues = <<>>

\* the category the code's prefix stands for: SA, ST, any other S, the rest
categoryOfPrefix(code) ==
    IF startsWith(code.chars, <<"S", "A">>) THEN "security"
    ELSE IF startsWith(code.chars, <<"S", "T">>) THEN "style"
    ELSE IF startsWith(code.chars, <<"S">>) THEN "correctness"
    ELSE "maintainability"

\* C25: staticcheck findings get their category from the code's prefix: SA security,
\* ST style, any other S correctness, everything else maintainability.
C25_StaticcheckCategoryByPrefix ==
    toolRun # NoToolRun /\ toolRun.tool = "staticcheck" =>
       \A k \in DOMAIN toolRun.result.issues :
          toolRun.result.issues[k].category = categoryOfPrefix(toolRun.code)

\* the static tools: everything runStaticTools can push to toolsRun
StaticTools == {"eslint", "semgrep", "ruff", "bandit", "gosec", "staticcheck"}

\* C24: in every ReviewOutput runReview builds, stats.tools_run has no entry twice, has
\* no static tool whose ToolResult had success = false, and has the LLM entry only if
\* the analysis of at least one chunk succeeded.
C24_ToolsRunHonest ==
    \A k \in DOMAIN output :
       LET tools == output[k].tools_run
       IN  /\ \A i, j \in DOMAIN tools : tools[i] = tools[j] => i = j
           /\ \A i \in DOMAIN tools : tools[i] \in StaticTools => tools[i] \notin failedSteps
           /\ (\E i \in DOMAIN tools : tools[i] = "llm-openai") => analysesOk >= 1

\* an output was built after two chunks were analysed and a static tool had failed
C24_Witness ==
    /\ output # <<>>
    /\ analysesOk >= 2
    /\ failedSteps \cap StaticTools # {}
    /\ \E i \in DOMAIN output[1].tools_run : output[1].tools_run[i] = "llm-openai"

\* C26: every issue a provider's analyze returns for a chunk is on a path that contains,
\* or is contained in, one of chunk.filePaths, and every item of the answer the schema
\* accepts that is on such a path is returned; for all three providers.
C26_IssuesOnChunkPaths ==
    LET onChunk(p) == \E k \in DOMAIN llmCall.filePaths :
                         pathIncludes(p, llmCall.filePaths[k]) \/ pathIncludes(llmCall.filePaths[k], p)
        unsourced(xs) == [k \in DOMAIN xs |-> [xs[k] EXCEPT !.source_tool = ""]]
    IN  /\ \A k \in DOMAIN llmCall.issues : onChunk(llmCall.issues[k].file_path)
        /\ unsourced(llmCall.issues)
              = unsourced(SelectSeq(llmCall.items,
                                    LAMBDA item : IssueSchemaAccepts(item) /\ onChunk(item.file_path)))

\* a provider other than OpenAI answered with an issue on a file of the chunk and one
\* on a file outside it, and returned the first only
C26_Witness ==
    /\ llmCall.provider = "anthropic"
    /\ Len(llmCall.items) = 3
    /\ Len(llmCall.issues) = 2
    /\ Len(llmCall.filePaths) >= 2

\* C27: in the memory queue at most one invocation of the processor is in flight at any
\* time, whatever the order of enqueue(), the settling of jobs and close().
C27_OneProcessorCallInFlight == Cardinality(inFlight) <= 1

\* C28: every check run runReview creates is updated to completed by the time the run
\* ends, whichever way it ends; after its return the run updates nothing any more, so
\* a check run still in_progress then stays so.
C28_CheckRunCompleted ==
    pc = "returned" /\ checkRunId # 0 => checkRunStatus = "completed"

\* C29: every file of a chunk runReview hands to the LLM provider is one of the
\* sourceFiles of categorizeFiles: no excluded file and no lockfile is sent.
C29_OnlySourceFilesAnalysed ==
    pc = "analyze" =>
       \A k \in DOMAIN chunksLeft : \A i \in DOMAIN chunksLeft[k].files :
          chunksLeft[k].files[i] \in Range(categorized.sourceFiles)

\* C30: once a hunk header of a file has been read, a hunk content line of that file
\* (starting with '+', '-' or a space) leaves the file's oldPath, newPath and type as
\* they were.
C30_ContentLinesKeepPaths ==
    [][diffGen.phase = "body" =>
          LET before == parsedDiff.files[Len(parsedDiff.files)]
              after == parsedDiff'.files[Len(parsedDiff'.files)]
          IN  /\ after.oldPath = before.oldPath
              /\ after.newPath = before.newPath
              /\ after.type = before.type]_vars

====
